---- MODULE Spec2Model ----
(***************************************************************************)
(* FlaschenTaschen: speech -> pitch shift -> resample -> relay queue ->     *)
(* real-time output.  The module models                                     *)
(*   - the standalone application (main.cpp: triggerNote, audioCallback,    *)
(*     resample) and the plugin (FTVoxProcessor::process, handleNoteOn,     *)
(*     speakSyllable, processTTSAudio), which share the relay-queue code;   *)
(*   - the WASAPI output engine (WasapiAudio: initialize, start, stop,      *)
(*     audioThread, destructor).                                            *)
(* Samples are fixed-point integers: a float x is held as x * FullScale.    *)
(***************************************************************************)
EXTENDS Integers, Sequences, FiniteSets, TLC

(***************************************************************************)
(* Bounds of the model                                                      *)
(***************************************************************************)
\* largest frame count one drain is asked for
MaxFrames == 3
\* number of utterances triggered in one run
MaxTriggers == 2
\* number of note-on events in one process() call of the plugin
MaxEvents == 2

(***************************************************************************)
(* Program constants                                                        *)
(***************************************************************************)
\* eSpeak's native rate (g_ttsSampleRate, ttsSampleRate_)
TtsSampleRate == 22050
\* middle C, the reference note of processToFrequency
MiddleCNote == 60
\* shift limit of processToFrequency, in semitones
MaxSemitones == 36
\* divisor of appendSamples (short -> float)
ShortScale == 32768
\* fixed-point unit of the model: the float 1.0 is FullScale
FullScale == 48000 \div 150

\* formats the output side may have: <<sample rate, channel count>>
\* (WasapiAudio::sampleRate_ / numChannels_, ProcessSetup::sampleRate and the
\* output bus)
Formats == {<<22050, 1>>, <<48000, 2>>}

NoThread == "free"
Triggers == {"t1", "t2"}
RenderThread == "render"
HostThread == "host"

Min(a, b) == IF a < b THEN a ELSE b
Max(a, b) == IF a > b THEN a ELSE b

(***************************************************************************)
(* Configuration (MappingConfig): note -> syllable text, "" when unmapped  *)
(***************************************************************************)
Notes == {36, 37, 60, 62}

\* variant: a note without a mapping gets the first syllable of the file
getSyllableForNoteDefault(midiNote) ==
    CASE midiNote = 36 -> "the"
      [] midiNote = 60 -> "do"
      [] midiNote = 62 -> "-"
      [] OTHER -> "the"

getSyllableForNote(midiNote) ==
    CASE midiNote = 36 -> "the"
      [] midiNote = 60 -> "do"
      [] midiNote = 62 -> "-"
      [] OTHER -> ""

(***************************************************************************)
(* Speech engine (espeak_Synth): the 16-bit chunk it delivers for a text    *)
(***************************************************************************)
Waveform(text) ==
    CASE text = "the" -> << -32768 >>
      [] text = "do" -> << 16384, -32768 >>
      [] OTHER -> << >>

\* ESpeakSynthesizer::appendSamples: float = short / 32768.0f
appendSamples(buffer, wav) ==
    buffer \o [i \in 1..Len(wav) |-> (wav[i] * FullScale) \div ShortScale]

(***************************************************************************)
(* Pitch shifter                                                            *)
(***************************************************************************)
\* values the vocoder's resynthesis may produce for one sample
Amplitudes == {-FullScale, FullScale \div 2}

\* triggerNote / speakSyllable: note handed to midiNoteToFrequency
pitchNote(midiNote, octaveOffset) ==
    Max(0, Min(127, midiNote + octaveOffset * 12))

\* Fixed point of the shifter's doubles: a frequency f Hz is held as
\* f * FreqUnit, a shift of s semitones as s * SemitoneUnit, a ratio r as
\* r * RatioOne.
FreqUnit == 1000
SemitoneUnit == 1000
RatioOne == 100000

\* 2^(k/12) * RatioOne for k = 0..11
Pow2Table == << 100000, 105946, 112246, 118921, 125992, 133484,
                141421, 149831, 158740, 168179, 178180, 188775 >>

\* a * b / RatioOne, the product split so that it stays in 32 bits
scaled(a, b) == (a * (b \div 1000)) \div 100 + (a * (b % 1000)) \div RatioOne

\* std::pow(2.0, k / 12.0) for a whole number k of semitones, applied to x
timesPow2(x, k) ==
    LET octave == k \div 12
        y == scaled(x, Pow2Table[(k % 12) + 1])
    IN  IF octave >= 0 THEN y * 2^octave ELSE y \div 2^(0 - octave)

\* variant: A4 is tuned to 432 Hz
midiNoteToFrequency432(midiNote) == timesPow2(432 * FreqUnit, midiNote - 69)

\* midiNoteToFrequency: 440.0 * std::pow(2.0, (midiNote - 69) / 12.0)
midiNoteToFrequency(midiNote) == timesPow2(440 * FreqUnit, midiNote - 69)

\* processToFrequency: double middleC = 261.63
middleC == 261630

\* a double that is not a number: std::log2 of a negative argument
NaN == 999999999

\* a < b on doubles: false when either is NaN
lessThan(a, b) == a # NaN /\ b # NaN /\ a < b

\* (std::min)(a, b) is (b < a) ? b : a; (std::max)(a, b) is (a < b) ? b : a
stdMin(a, b) == IF lessThan(b, a) THEN b ELSE a
stdMax(a, b) == IF lessThan(a, b) THEN b ELSE a

\* the frequency j semitones from middle C, for the shifts log2Semitones
\* tells apart
semitoneFreq ==
    [j \in (0 - (MaxSemitones + 1))..(MaxSemitones + 1) |->
        timesPow2(middleC, j)]

\* 12.0 * std::log2(targetFreqHz / middleC): NaN below zero; beyond 37
\* semitones either way (-infinity at zero included) the value is held as
\* 37 semitones, which the limit of 36 cuts in the same way; in between,
\* the semitone k below and a linear part
log2Semitones(targetFreqHz) ==
    IF targetFreqHz < 0 THEN NaN
    ELSE IF targetFreqHz < semitoneFreq[0 - (MaxSemitones + 1)]
    THEN 0 - (MaxSemitones + 1) * SemitoneUnit
    ELSE IF targetFreqHz >= semitoneFreq[MaxSemitones + 1]
    THEN (MaxSemitones + 1) * SemitoneUnit
    ELSE CHOOSE semis \in
             { k * SemitoneUnit
                 + ((targetFreqHz - semitoneFreq[k]) * SemitoneUnit)
                       \div (semitoneFreq[k + 1] - semitoneFreq[k]) :
               k \in { j \in (0 - (MaxSemitones + 1))..MaxSemitones :
                         /\ semitoneFreq[j] <= targetFreqHz
                         /\ targetFreqHz < semitoneFreq[j + 1] } } : TRUE

\* variant: the shift is limited above only
limitedAbove(semis) == stdMin(MaxSemitones * SemitoneUnit, semis)

\* semitones = (std::max)(-36.0, (std::min)(36.0, semitones))
limited(semis) ==
    stdMax(0 - MaxSemitones * SemitoneUnit,
           stdMin(MaxSemitones * SemitoneUnit, semis))

\* processToFrequency: the semitone shift against middle C, limited
semitones(targetFreqHz) ==
    CHOOSE semis \in { limited(x) : x \in {log2Semitones(targetFreqHz)} } :
        TRUE

\* std::pow(2.0, semitones / 12.0): the whole semitone below and a linear
\* part
pow2Semitones(semis) ==
    LET k == semis \div SemitoneUnit
        lo == timesPow2(RatioOne, k)
        hi == timesPow2(RatioOne, k + 1)
    IN  lo + ((hi - lo) * (semis % SemitoneUnit)) \div SemitoneUnit

\* variant: only an empty block is passed through
bypassEmptyOnly(input, ratio) == Len(input) = 0

\* pitchShiftWorld: if (input.empty() || ratio <= 0 ||
\* std::abs(ratio - 1.0) < 0.001) return input
bypass(input, ratio) ==
    \/ Len(input) = 0
    \/ ratio <= 0
    \/ (IF ratio > RatioOne THEN ratio - RatioOne ELSE RatioOne - ratio)
           < RatioOne \div 1000

\* f0_floor and f0_ceil handed to Dio, in Hz
F0Floor == 71
F0Ceil == 800

\* the F0 values Dio may report for a frame: 0 for an unvoiced frame, else
\* within floor and ceiling
F0Values == {0, F0Floor, 150, F0Ceil}

\* framePeriod_, in ms
FramePeriod == 5

\* GetSamplesForDIO(sampleRate_, inputLength, framePeriod_): the number of
\* analysis frames
GetSamplesForDIO(fs, inputLength, framePeriod) ==
    (1000 * inputLength) \div (fs * framePeriod) + 1

\* variant: modified values are limited to floor and ceiling
modifiedF0Clamped(f0, ratio) ==
    [i \in 1..Len(f0) |->
        IF f0[i] > 0
        THEN Max(F0Floor * RatioOne, Min(F0Ceil * RatioOne, f0[i] * ratio))
        ELSE 0]

\* Step 4: modifiedF0[i] = f0[i] * ratio for f0[i] > 0, else 0.0
\* (in Hz * RatioOne)
modifiedF0(f0, ratio) ==
    [i \in 1..Len(f0) |-> IF f0[i] > 0 THEN f0[i] * ratio ELSE 0]

\* variant: the output is as long as the input played ratio times faster
outputLengthScaled(inputLength, ratio) == (inputLength * RatioOne) \div ratio

\* Step 5: int outputLength = inputLength
outputLength(inputLength, ratio) == inputLength

\* pitchShiftWorld: the set of blocks it may return.  The input itself on
\* bypass; else the outputLength samples Synthesis writes.
pitchShiftWorld(input, ratio) ==
    IF bypass(input, ratio)
    THEN {input}
    ELSE [1..outputLength(Len(input), ratio) -> Amplitudes]

\* processToFrequency(input, targetFreqHz): the locals semitones and ratio
\* are each computed once, then pitchShiftWorld(input, ratio)
processToFrequency(input, targetFreqHz) ==
    UNION { pitchShiftWorld(input, ratio) :
                ratio \in { pow2Semitones(semis) :
                    semis \in { semitones(f) : f \in {targetFreqHz} } } }

(***************************************************************************)
(* Rate converter (resample, FTVoxProcessor::resample)                      *)
(***************************************************************************)
\* variant: the ratio is taken as inputRate / outputRate
resampleSizeInverted(n, inputRate, outputRate) ==
    (n * inputRate) \div outputRate

\* outputSize = static_cast<size_t>(input.size() * ratio) with
\* ratio = outputRate / inputRate: the product cut to a whole number
resampleSize(n, inputRate, outputRate) == (n * outputRate) \div inputRate

\* variant: without the branch for the final interval, which then gets the
\* filler zero
resampleAtUnclamped(input, i, inputRate, outputRate) ==
    LET srcIndex == (i * inputRate) \div outputRate
        rem == (i * inputRate) % outputRate
    IN  IF srcIndex + 1 < Len(input)
        THEN input[srcIndex + 1]
             + ((input[srcIndex + 2] - input[srcIndex + 1]) * rem) \div outputRate
        ELSE 0

resampleAt(input, i, inputRate, outputRate) ==
    LET srcIndex == (i * inputRate) \div outputRate
        rem == (i * inputRate) % outputRate
    IN  IF srcIndex + 1 < Len(input)
        THEN input[srcIndex + 1]
             + ((input[srcIndex + 2] - input[srcIndex + 1]) * rem) \div outputRate
        ELSE IF srcIndex < Len(input) THEN input[srcIndex + 1] ELSE 0

\* variant: the output is allocated at the input's size and never filled
resampleSilent(input, inputRate, outputRate) == [i \in 1..Len(input) |-> 0]

resample(input, inputRate, outputRate) ==
    IF inputRate = outputRate \/ Len(input) = 0
    THEN input
    ELSE [i \in 1..resampleSize(Len(input), inputRate, outputRate) |->
             resampleAt(input, i - 1, inputRate, outputRate)]

\* variant: the earlier revision of triggerNote, which queues the block at
\* the synthesis rate
notConverted(block, inputRate, outputRate) == block

\* triggerNote / speakSyllable, "Resample from TTS rate to output rate":
\* if (ttsRate != outputRate) samples = resample(samples, ttsRate, outputRate)
rateConverted(block, inputRate, outputRate) ==
    IF inputRate # outputRate
    THEN resample(block, inputRate, outputRate)
    ELSE block

(***************************************************************************)
(* Relay drain (audioCallback, processTTSAudio)                             *)
(***************************************************************************)
\* variant: the frame count is taken as asked, without the min
ttsFramesUnclamped(numFrames, samplesAvailable) == numFrames

\* ttsFramesToRead = min(numFrames, samplesAvailable)
ttsFramesToRead(numFrames, samplesAvailable) == Min(numFrames, samplesAvailable)

\* variant: past the queued samples the last one is held instead of silence
frameSampleHold(queue, frame, toRead) ==
    IF Len(queue) = 0 THEN 0 ELSE queue[Min(frame, Len(queue) - 1) + 1]

\* variant: only the first channel of a frame is written
firstChannelOnly(sample, ch) == IF ch = 0 THEN sample ELSE 0

\* "Write to all channels": for (ch = 0; ch < numChannels; ++ch) ... = sample
channelSample(sample, ch) == sample

\* the mono value written to every channel of a frame (0-based frame)
frameSample(queue, frame, toRead) ==
    IF frame < toRead /\ frame < Len(queue) THEN queue[frame + 1] ELSE 0

\* audioCallback: interleaved destination, buffer[frame * numChannels + ch]
interleaved(queue, numFrames, numChannels) ==
    LET toRead == ttsFramesToRead(numFrames, Len(queue))
    IN  [k \in 1..(numFrames * numChannels) |->
            channelSample(frameSample(queue, (k - 1) \div numChannels, toRead),
                          (k - 1) % numChannels)]

\* variant: the plugin's copy loop writes outputs[0] only
planarFirstChannel(queue, numFrames, numChannels) ==
    LET toRead == ttsFramesToRead(numFrames, Len(queue))
        outputs == [ch \in 0..(numChannels - 1) |->
                       [f \in 1..numFrames |->
                           firstChannelOnly(frameSample(queue, f - 1, toRead),
                                            ch)]]
    IN  [k \in 1..(numFrames * numChannels) |->
            outputs[(k - 1) % numChannels][((k - 1) \div numChannels) + 1]]

\* processTTSAudio: planar destination, outputs[ch][frame], flattened
\* frame-major so that both drains are compared position by position
planar(queue, numFrames, numChannels) ==
    LET toRead == ttsFramesToRead(numFrames, Len(queue))
        outputs == [ch \in 0..(numChannels - 1) |->
                       [f \in 1..numFrames |->
                           channelSample(frameSample(queue, f - 1, toRead),
                                         ch)]]
    IN  [k \in 1..(numFrames * numChannels) |->
            outputs[(k - 1) % numChannels][((k - 1) \div numChannels) + 1]]

\* "Remove consumed samples": erase(begin, begin + toRead) under its guard
eraseConsumed(queue, numFrames) ==
    LET toRead == ttsFramesToRead(numFrames, Len(queue))
    IN  IF toRead > 0 /\ toRead <= Len(queue)
        THEN SubSeq(queue, toRead + 1, Len(queue))
        ELSE queue

\* history: the first n frames of a destination, read from channel 0
firstFrames(buffer, n, numChannels) ==
    [f \in 1..n |-> buffer[(f - 1) * numChannels + 1]]

\* variant: the block is inserted in front of the queued samples
insertAtBegin(queue, samples) == samples \o queue

\* vector::insert(end, samples.begin(), samples.end())
insertAtEnd(queue, samples) == queue \o samples


(***************************************************************************)
(* Speech synthesis adapter (ESpeakSynthesizer) over the eSpeak library.    *)
(* An adapter state s is [initialized_, tts, espeak]: the flag, the other   *)
(* members, and what the library has been told.                             *)
(***************************************************************************)
\* what LoadLibrary / GetProcAddress find: no library; a library that lacks
\* a required entry point; one with espeak_Initialize,
\* espeak_SetSynthCallback and espeak_Synth only; a complete one
Dlls == {"absent", "missing", "required", "all"}

\* a parameter the library has not been given since espeak_Initialize
NotGiven == 0 - 1

\* the library before espeak_Initialize and after espeak_Terminate
EngineDown == [initialized |-> FALSE, callback |-> FALSE, voice |-> "",
               rate |-> NotGiven, pitch |-> NotGiven, range |-> NotGiven,
               volume |-> NotGiven]

\* the library after espeak_Initialize: its own defaults, no callback yet
EngineUp == [EngineDown EXCEPT !.initialized = TRUE]

\* the members of a constructed ESpeakSynthesizer (the diagnostic string
\* lastError_ is left out: no decision depends on it)
NewAdapter == [dllLoaded_ |-> FALSE, exports |-> "none", sampleRate_ |-> 44100,
               voice_ |-> "en", rate_ |-> 175, pitch_ |-> 50,
               volume_ |-> 100]

\* the function pointers loadDll fills; the last five are not required
fn_Synth_(a) == a.exports \in {"required", "all"}
fn_SetParameter_(a) == a.exports = "all"
fn_SetVoiceByName_(a) == a.exports = "all"
fn_Synchronize_(a) == a.exports = "all"
fn_Cancel_(a) == a.exports = "all"
fn_Terminate_(a) == a.exports = "all"

\* loadDll: nothing to do once loaded; else the library is looked up and
\* its entry points resolved; dllLoaded_ only when the required ones are
\* there
loadDll(a, dll) ==
    IF a.dllLoaded_ THEN a
    ELSE IF dll = "absent"
    THEN a
    ELSE IF dll = "missing"
    THEN [a EXCEPT !.exports = "missing"]
    ELSE [a EXCEPT !.exports = dll, !.dllLoaded_ = TRUE]

\* variant: the rate is stored as given
rateAsGiven(rate) == rate

\* setRate: (std::max)(80, (std::min)(450, rate))
clampRate(rate) == Max(80, Min(450, rate))

\* setPitch: (std::max)(0, (std::min)(99, pitch))
clampPitch(pitch) == Max(0, Min(99, pitch))

\* setVolume: (std::max)(0, (std::min)(200, volume))
clampVolume(volume) == Max(0, Min(200, volume))

\* setVoice / setRate / setPitch / setVolume: the member is stored; the
\* library is told only if (initialized_ && fn_...)
ttsSetVoice(s, voice) ==
    [s EXCEPT !.tts.voice_ = voice,
              !.espeak.voice =
                  IF s.initialized_ /\ fn_SetVoiceByName_(s.tts) THEN voice
                  ELSE @]

ttsSetRate(s, rate) ==
    [s EXCEPT !.tts.rate_ = clampRate(rate),
              !.espeak.rate =
                  IF s.initialized_ /\ fn_SetParameter_(s.tts)
                  THEN clampRate(rate) ELSE @]

ttsSetPitch(s, pitch) ==
    [s EXCEPT !.tts.pitch_ = clampPitch(pitch),
              !.espeak.pitch =
                  IF s.initialized_ /\ fn_SetParameter_(s.tts)
                  THEN clampPitch(pitch) ELSE @,
              !.espeak.range =
                  IF s.initialized_ /\ fn_SetParameter_(s.tts) THEN 20 ELSE @]

ttsSetVolume(s, volume) ==
    [s EXCEPT !.tts.volume_ = clampVolume(volume),
              !.espeak.volume =
                  IF s.initialized_ /\ fn_SetParameter_(s.tts)
                  THEN clampVolume(volume) ELSE @]

\* variant: initialize never takes its early return
neverInitialized(s) == FALSE

\* initialize: if (initialized_) return true
alreadyInitialized(s) == s.initialized_

\* initialize(sampleRate): sampleRate_, loadDll, espeak_Initialize,
\* espeak_SetSynthCallback, the four setters, and only then
\* initialized_ = true.  dll: what loadDll finds; initOk: espeak_Initialize
\* does not fail.
ttsInitialize(s, sampleRate, dll, initOk) ==
    IF alreadyInitialized(s) THEN s
    ELSE LET a == loadDll([s.tts EXCEPT !.sampleRate_ = sampleRate], dll)
         IN  IF ~a.dllLoaded_ THEN [s EXCEPT !.tts = a]
             ELSE IF ~initOk THEN [s EXCEPT !.tts = a]
             ELSE LET up == [s EXCEPT !.tts = a,
                                      !.espeak =
                                          [EngineUp EXCEPT !.callback = TRUE]]
                      set == ttsSetVolume(
                                 ttsSetPitch(
                                     ttsSetRate(
                                         ttsSetVoice(up, up.tts.voice_),
                                         up.tts.rate_),
                                     up.tts.pitch_),
                                 up.tts.volume_)
                  IN  [set EXCEPT !.initialized_ = TRUE]

\* shutdown: if (initialized_ && fn_Terminate_) { stop(); espeak_Terminate();
\* initialized_ = false; }
ttsShutdown(s) ==
    IF s.initialized_ /\ fn_Terminate_(s.tts)
    THEN [s EXCEPT !.espeak = EngineDown, !.initialized_ = FALSE]
    ELSE s

\* variant: speak only tests the text
speakUnguarded(s, text) == text = ""

\* speak: if (!initialized_ || text.empty() || !fn_Synth_ || !fn_Synchronize_)
\* return
speakRefused(s, text) ==
    \/ ~s.initialized_
    \/ text = ""
    \/ ~fn_Synth_(s.tts)
    \/ ~fn_Synchronize_(s.tts)

\* variant: the static callback drops every chunk
callbackDrops(instance, chunk) == FALSE

\* synthCallbackStatic: if (currentInstance_ && wav && numsamples > 0)
callbackAppends(instance, chunk) == instance # "null" /\ Len(chunk) > 0

\* variant: getAudioSamples returns with bufferMutex_ still locked
heldOnReturn(holder) == holder

\* getAudioSamples returns: its lock_guard unlocks bufferMutex_
releasedOnReturn(holder) == NoThread

\* variant: the callback returns with instanceMutex_ still locked
callbackHolds(holder) == holder

\* synthCallbackStatic returns: its lock_guard unlocks instanceMutex_
callbackReturns(holder) == NoThread

\* variant: getAudioSamples leaves the samples in the buffer
movedFromKept(buffer) == buffer

\* getAudioSamples: audioBuffer_ after std::move and clear()
movedFrom(buffer) == << >>


(***************************************************************************)
(* State                                                                    *)
(***************************************************************************)
VARIABLES
    \* which program runs: "none" before startup, "standalone", "plugin"
    app,
    \* ESpeakSynthesizer (g_tts / tts_)
    initialized_, audioBuffer_,
    \* standalone globals
    g_ttsAudioBuffer, g_ttsBufferMutex, g_pitchShiftEnabled, g_octaveOffset,
    g_outputSampleRate,
    \* FTVoxProcessor members
    ttsAudioBuffer_, ttsBufferMutex_, configLoaded_, ttsEnabled_,
    pitchShiftEnabled_, octaveOffset_, sampleRate_,
    \* channel count of the output device / output bus
    numChannels_,
    \* per-thread position and locals (trigger threads, render thread, host
    \* audio thread): statement about to run, note, block in hand
    pc, note, samples,
    \* process(): number of note-on events not yet handled, data.numSamples
    events, numSamples,
    \* the drain call in progress: its arguments, the queue it found and the
    \* destination it filled (handed to the device when the call returns)
    drain,
    \* history of the relay: every sample appended, every queued sample a
    \* drain wrote, counts of samples appended and of samples removed,
    \* triggers issued
    appended, played, totalAppended, totalConsumed, triggers,
    \* WasapiAudio members: COM pointers (non-null?), the state of the audio
    \* client object audioClient_ points to, the mix format, the event
    \* handle, std::thread audioThread_ (joinable?)
    audioClient_, renderClient_, waveFormat_, bufferFrames_, running_,
    audioThread_, callback_, lastError_, audioEvent_,
    \* the event object behind audioEvent_ is signaled; a started stream of a
    \* client object that audioClient_ no longer points to still signals it
    eventSignaled, abandonedStream,
    \* threads inside WasapiAudio: position of each calling thread and the
    \* call it is in, position and local of the worker, number of worker
    \* threads that exist
    cpc, cop, wpc, availableFrames, liveWorkers,
    \* history of the worker's current pass through its loop body: how the
    \* device calls went, the padding reported, the frame counts handed to
    \* GetBuffer and to ReleaseBuffer, the number of times the buffer was
    \* filled, by what, and with how many frames
    cycle,
    \* how the process ended, if it did; the object was destroyed
    fault, destroyed,
    \* history of the engine: last completed call of each caller with its
    \* return value (and the callback given to start), where the calls so
    \* far put the engine in the documented state machine, join() calls
    \* completed on the current worker
    ret, session, joins,
    \* ESpeakSynthesizer: the members besides initialized_ and audioBuffer_
    \* (tts), what the eSpeak library has been told (espeak), speaking_, the
    \* static currentInstance_ ("null" or "this") and the two mutexes
    tts, espeak, speaking_, currentInstance_, instanceMutex_, bufferMutex_,
    \* espeak_Synth in progress on a thread: the 16-bit samples still to be
    \* delivered, and the chunk handed to the callback
    pending, chunk,
    \* history of the adapter's calls made step by step: samples the library
    \* handed to the callback, samples appendSamples stored, samples
    \* getAudioSamples returned; the last completed call with its return
    \* value; numbers of setter and of speak calls made
    emitted, stored, taken, called, sets, speaks,
    \* a second ESpeakSynthesizer in the same process (twin): its
    \* initialized_, its other members, its audioBuffer_, bufferMutex_ and
    \* speaking_; and, for each thread, the adapter whose speak() it is in
    \* ("this": the first adapter, "other": the twin)
    twin, self,
    \* WorldPitchShifter::pitchShiftRatio_
    pitchShiftRatio_,
    \* history: the last call of the shifter or of resample from outside the
    \* pipeline, with what it was given and what it returned
    dsp

Threads == Triggers \cup {RenderThread, HostThread}

NoDrain == [numFrames |-> 0, numChannels |-> 0, before |-> << >>,
            buffer |-> << >>]

adapterVars == << initialized_, audioBuffer_ >>
standaloneVars == << g_ttsAudioBuffer, g_ttsBufferMutex, g_pitchShiftEnabled,
                     g_octaveOffset, g_outputSampleRate >>
pluginVars == << ttsAudioBuffer_, ttsBufferMutex_, configLoaded_, ttsEnabled_,
                 pitchShiftEnabled_, octaveOffset_, sampleRate_, events,
                 numSamples >>
threadVars == << pc, note, samples >>
historyVars == << appended, played, totalAppended, totalConsumed >>

twinVars == << twin, self >>

synthVars == << tts, espeak, speaking_, currentInstance_, instanceMutex_,
               bufferMutex_, pending, chunk, emitted, stored, taken, called,
               sets, speaks, twinVars >>

relayVars == << app, adapterVars, standaloneVars, pluginVars, numChannels_,
                threadVars, drain, historyVars, triggers >>

\* the relay's variables that WasapiAudio has no member for
dspVars == << pitchShiftRatio_, dsp >>

relayOnlyVars == << app, adapterVars, synthVars, dspVars, standaloneVars,
                    ttsAudioBuffer_, ttsBufferMutex_, configLoaded_,
                    ttsEnabled_, pitchShiftEnabled_, octaveOffset_, events,
                    numSamples, threadVars, drain, historyVars, triggers >>

comVars == << audioClient_, renderClient_, waveFormat_, bufferFrames_,
              audioEvent_ >>
eventVars == << eventSignaled, abandonedStream >>
workerVars == << wpc, availableFrames, liveWorkers, cycle >>
engineHistoryVars == << ret, session, joins >>
engineVars == << comVars, running_, audioThread_, callback_, lastError_,
                 eventVars, cpc, cop, workerVars, fault, destroyed,
                 engineHistoryVars >>

\* the adapter as the pure operators see it, and the assignment of their
\* result
AdapterState == [initialized_ |-> initialized_, tts |-> tts, espeak |-> espeak]

\* the twin as the pure operators see it; the library is the process's
TwinState == [initialized_ |-> twin.initialized_, tts |-> twin.tts,
              espeak |-> espeak]

\* the adapter an instance pointer stands for
StateOf(instance) == IF instance = "other" THEN TwinState ELSE AdapterState

SetAdapter(s) ==
    /\ initialized_' = s.initialized_
    /\ tts' = s.tts
    /\ espeak' = s.espeak

\* the adapter's variables that initialize, shutdown and the setters leave
\* alone
speechVars == << speaking_, currentInstance_, instanceMutex_, bufferMutex_,
                pending, chunk, emitted, stored, taken, called, sets, speaks,
                twinVars >>

NoAdapterCall == [op |-> "none", value |-> FALSE]

\* no call yet
NoDspCall == [op |-> "none", input |-> << >>, arg |-> << >>,
              modified |-> << >>, output |-> << >>]

DspInit ==
    /\ pitchShiftRatio_ = RatioOne
    /\ dsp = NoDspCall

SynthInit ==
    /\ tts = NewAdapter
    /\ espeak = EngineDown
    /\ speaking_ = FALSE
    /\ currentInstance_ = "null"
    /\ instanceMutex_ = NoThread
    /\ bufferMutex_ = NoThread
    /\ pending = [t \in Threads |-> << >>]
    /\ chunk = [t \in Threads |-> << >>]
    /\ emitted = << >>
    /\ stored = << >>
    /\ taken = << >>
    /\ called = NoAdapterCall
    /\ sets = 0
    /\ speaks = 0
    /\ twin = [initialized_ |-> FALSE, tts |-> NewAdapter,
               audioBuffer_ |-> << >>, bufferMutex_ |-> NoThread,
               speaking_ |-> FALSE]
    /\ self = [t \in Threads |-> "this"]

RelayInit ==
    /\ app = "none"
    /\ initialized_ = FALSE
    /\ audioBuffer_ = << >>
    /\ g_ttsAudioBuffer = << >>
    /\ g_ttsBufferMutex = NoThread
    /\ g_pitchShiftEnabled = TRUE
    /\ g_octaveOffset = 0
    /\ g_outputSampleRate = 48000
    /\ ttsAudioBuffer_ = << >>
    /\ ttsBufferMutex_ = NoThread
    /\ configLoaded_ = FALSE
    /\ ttsEnabled_ = TRUE
    /\ pitchShiftEnabled_ = TRUE
    /\ octaveOffset_ = 0
    /\ sampleRate_ = 44100
    /\ numChannels_ = 2
    /\ pc = [t \in Threads |-> "idle"]
    /\ note = [t \in Threads |-> 0]
    /\ samples = [t \in Threads |-> << >>]
    /\ events = 0
    /\ numSamples = 0
    /\ drain = NoDrain
    /\ appended = << >>
    /\ played = << >>
    /\ totalAppended = 0
    /\ totalConsumed = 0
    /\ triggers = 0

(***************************************************************************)
(* Standalone application                                                   *)
(***************************************************************************)
\* main, steps [3]-[5]: the device's mix format; g_tts.initialize(22050)
\* and, when it succeeds, the four setters with the configured values
\* (here the adapter's defaults)
main(format, ttsOk) ==
    /\ app = "none"
    /\ app' = "standalone"
    /\ g_outputSampleRate' = format[1]
    /\ numChannels_' = format[2]
    /\ LET s == ttsInitialize(AdapterState, TtsSampleRate,
                               IF ttsOk THEN "all" ELSE "absent", ttsOk)
       IN  SetAdapter(IF s.initialized_
                      THEN ttsSetVolume(
                               ttsSetPitch(
                                   ttsSetRate(ttsSetVoice(s, s.tts.voice_),
                                              s.tts.rate_),
                                   s.tts.pitch_),
                               s.tts.volume_)
                      ELSE s)
    /\ UNCHANGED << engineVars, speechVars, dspVars >>
    /\ UNCHANGED << audioBuffer_, g_ttsAudioBuffer, g_ttsBufferMutex,
                    g_pitchShiftEnabled, g_octaveOffset, pluginVars, threadVars,
                    drain, historyVars, triggers >>

\* main loop, key 'P'
togglePitchShift ==
    /\ app = "standalone"
    /\ g_pitchShiftEnabled' = ~g_pitchShiftEnabled
    /\ UNCHANGED << engineVars, synthVars, dspVars >>
    /\ UNCHANGED << app, adapterVars, g_ttsAudioBuffer, g_ttsBufferMutex,
                    g_octaveOffset, g_outputSampleRate, pluginVars,
                    numChannels_, threadVars, drain, historyVars, triggers >>

\* triggerNote, up to the TTS branch: syllable lookup, console output,
\* g_currentSyllable, LED display, g_tts.isInitialized()
triggerNote(t, midiNote) ==
    /\ app = "standalone"
    /\ pc[t] = "idle"
    /\ triggers < MaxTriggers
    /\ triggers' = triggers + 1
    /\ IF getSyllableForNote(midiNote) # "" /\ initialized_
       THEN /\ note' = [note EXCEPT ![t] = midiNote]
            /\ pc' = [pc EXCEPT ![t] = "speak"]
       ELSE UNCHANGED << note, pc >>
    /\ UNCHANGED << engineVars, synthVars, dspVars >>
    /\ UNCHANGED << app, adapterVars, standaloneVars, pluginVars, numChannels_,
                    samples, drain, historyVars >>

\* g_tts.speak(syllable): the engine's chunk goes through appendSamples
triggerSpeak(t) ==
    /\ app = "standalone"
    /\ pc[t] = "speak"
    /\ audioBuffer_' = appendSamples(audioBuffer_,
                                     Waveform(getSyllableForNote(note[t])))
    /\ pc' = [pc EXCEPT ![t] = "process"]
    /\ UNCHANGED << engineVars, synthVars, dspVars >>
    /\ UNCHANGED << app, initialized_, standaloneVars, pluginVars, numChannels_,
                    note, samples, drain, historyVars, triggers >>

\* samples = g_tts.getAudioSamples(); if non-empty: processToFrequency when
\* g_pitchShiftEnabled, resample when the rates differ (with their console
\* output); all of it on the thread's own block
triggerProcess(t) ==
    /\ app = "standalone"
    /\ pc[t] = "process"
    /\ audioBuffer_' = << >>
    /\ IF Len(audioBuffer_) = 0
       THEN /\ pc' = [pc EXCEPT ![t] = "idle"]
            /\ note' = [note EXCEPT ![t] = 0]
            /\ samples' = samples
       ELSE /\ pc' = [pc EXCEPT ![t] = "lock"]
            /\ note' = note
            /\ \E y \in (IF g_pitchShiftEnabled
                         THEN processToFrequency(audioBuffer_,
                                  midiNoteToFrequency(
                                      pitchNote(note[t], g_octaveOffset)))
                         ELSE {audioBuffer_}) :
                  samples' = [samples EXCEPT ![t] =
                      rateConverted(y, TtsSampleRate, g_outputSampleRate)]
    /\ UNCHANGED << engineVars, synthVars, dspVars >>
    /\ UNCHANGED << app, initialized_, standaloneVars, pluginVars, numChannels_,
                    drain, historyVars, triggers >>

\* std::lock_guard<std::mutex> lock(g_ttsBufferMutex)
triggerLock(t) ==
    /\ app = "standalone"
    /\ pc[t] = "lock"
    /\ g_ttsBufferMutex = NoThread
    /\ g_ttsBufferMutex' = t
    /\ pc' = [pc EXCEPT ![t] = "insert"]
    /\ UNCHANGED << engineVars, synthVars, dspVars >>
    /\ UNCHANGED << app, adapterVars, g_ttsAudioBuffer, g_pitchShiftEnabled,
                    g_octaveOffset, g_outputSampleRate, pluginVars,
                    numChannels_, note, samples, drain, historyVars, triggers >>

\* g_ttsAudioBuffer.insert(g_ttsAudioBuffer.end(), ...)
triggerInsert(t) ==
    /\ app = "standalone"
    /\ pc[t] = "insert"
    /\ g_ttsAudioBuffer' = insertAtEnd(g_ttsAudioBuffer, samples[t])
    /\ appended' = appended \o samples[t]
    /\ totalAppended' = totalAppended + Len(samples[t])
    /\ pc' = [pc EXCEPT ![t] = "log"]
    /\ UNCHANGED << engineVars, synthVars, dspVars >>
    /\ UNCHANGED << app, adapterVars, g_ttsBufferMutex, g_pitchShiftEnabled,
                    g_octaveOffset, g_outputSampleRate, pluginVars,
                    numChannels_, note, samples, drain, played, totalConsumed,
                    triggers >>

\* std::cout << "TTS generated ..."; the lock_guard is released at the end
\* of the block and triggerNote returns
triggerLog(t) ==
    /\ app = "standalone"
    /\ pc[t] = "log"
    /\ g_ttsBufferMutex' = NoThread
    /\ samples' = [samples EXCEPT ![t] = << >>]
    /\ note' = [note EXCEPT ![t] = 0]
    /\ pc' = [pc EXCEPT ![t] = "idle"]
    /\ UNCHANGED << engineVars, synthVars, dspVars >>
    /\ UNCHANGED << app, adapterVars, g_ttsAudioBuffer, g_pitchShiftEnabled,
                    g_octaveOffset, g_outputSampleRate, pluginVars,
                    numChannels_, drain, historyVars, triggers >>

\* audioCallback entry: std::lock_guard<std::mutex> lock(g_ttsBufferMutex)
audioCallbackLock ==
    /\ app = "standalone"
    /\ pc[RenderThread] = "idle"
    /\ g_ttsBufferMutex = NoThread
    /\ g_ttsBufferMutex' = RenderThread
    /\ pc' = [pc EXCEPT ![RenderThread] = "drain"]
    /\ UNCHANGED << engineVars, synthVars, dspVars >>
    /\ UNCHANGED << app, adapterVars, g_ttsAudioBuffer, g_pitchShiftEnabled,
                    g_octaveOffset, g_outputSampleRate, pluginVars,
                    numChannels_, note, samples, drain, historyVars, triggers >>

\* audioCallback body: the copy loop and the erase
audioCallback(numFrames) ==
    /\ app = "standalone"
    /\ pc[RenderThread] = "drain"
    /\ g_ttsAudioBuffer' = eraseConsumed(g_ttsAudioBuffer, numFrames)
    /\ drain' = [numFrames |-> numFrames, numChannels |-> numChannels_,
                 before |-> g_ttsAudioBuffer,
                 buffer |-> interleaved(g_ttsAudioBuffer, numFrames,
                                        numChannels_)]
    /\ played' = played \o
           firstFrames(interleaved(g_ttsAudioBuffer, numFrames, numChannels_),
                       Min(numFrames, Len(g_ttsAudioBuffer)), numChannels_)
    /\ totalConsumed' = totalConsumed + Min(numFrames, Len(g_ttsAudioBuffer))
    /\ pc' = [pc EXCEPT ![RenderThread] = "written"]
    /\ UNCHANGED << engineVars, synthVars, dspVars >>
    /\ UNCHANGED << app, adapterVars, g_ttsBufferMutex, g_pitchShiftEnabled,
                    g_octaveOffset, g_outputSampleRate, pluginVars,
                    numChannels_, note, samples, appended, totalAppended,
                    triggers >>

\* audioCallback returns: the lock_guard is released, the filled buffer goes
\* to the device
audioCallbackReturn ==
    /\ app = "standalone"
    /\ pc[RenderThread] = "written"
    /\ g_ttsBufferMutex' = NoThread
    /\ drain' = NoDrain
    /\ pc' = [pc EXCEPT ![RenderThread] = "idle"]
    /\ UNCHANGED << engineVars, synthVars, dspVars >>
    /\ UNCHANGED << app, adapterVars, g_ttsAudioBuffer, g_pitchShiftEnabled,
                    g_octaveOffset, g_outputSampleRate, pluginVars,
                    numChannels_, note, samples, historyVars, triggers >>

(***************************************************************************)
(* Plugin (FTVoxProcessor)                                                  *)
(***************************************************************************)
\* FTVoxProcessor::initialize: the host instantiates the processor
pluginInitialize ==
    /\ app = "none"
    /\ app' = "plugin"
    /\ UNCHANGED << engineVars, synthVars, dspVars >>
    /\ UNCHANGED << adapterVars, standaloneVars, pluginVars, numChannels_,
                    threadVars, drain, historyVars, triggers >>

\* notify("MappingFile") -> loadMappingFile
loadMappingFile(ok) ==
    /\ app = "plugin"
    /\ pc[HostThread] = "idle"
    /\ configLoaded_' = (configLoaded_ \/ ok)
    /\ UNCHANGED << engineVars, synthVars, dspVars >>
    /\ UNCHANGED << app, adapterVars, standaloneVars, ttsAudioBuffer_,
                    ttsBufferMutex_, ttsEnabled_, pitchShiftEnabled_,
                    octaveOffset_, sampleRate_, events, numSamples,
                    numChannels_, threadVars, drain, historyVars, triggers >>

\* setupProcessing: sampleRate_ = newSetup.sampleRate; an initialized adapter
\* is shut down and initialized again (which may fail)
setupProcessing(format, ttsOk) ==
    /\ app = "plugin"
    /\ pc[HostThread] = "idle"
    /\ sampleRate_' = format[1]
    /\ numChannels_' = format[2]
    /\ SetAdapter(IF initialized_
                  THEN ttsInitialize(ttsShutdown(AdapterState), format[1],
                                     "all", ttsOk)
                  ELSE AdapterState)
    /\ UNCHANGED << engineVars, speechVars, dspVars >>
    /\ UNCHANGED << app, audioBuffer_, standaloneVars, ttsAudioBuffer_,
                    ttsBufferMutex_, configLoaded_, ttsEnabled_,
                    pitchShiftEnabled_, octaveOffset_, events, numSamples,
                    threadVars, drain, historyVars, triggers >>

\* setActive(true): tts_->initialize(22050) when not yet initialized
setActive(ttsOk) ==
    /\ app = "plugin"
    /\ pc[HostThread] = "idle"
    /\ SetAdapter(IF ~initialized_
                  THEN ttsInitialize(AdapterState, TtsSampleRate,
                                     IF ttsOk THEN "all" ELSE "absent", ttsOk)
                  ELSE AdapterState)
    /\ UNCHANGED << engineVars, speechVars, dspVars >>
    /\ UNCHANGED << app, audioBuffer_, standaloneVars, pluginVars, numChannels_,
                    threadVars, drain, historyVars, triggers >>

\* a normalized parameter value v in [0, 1] is held as v * ParamUnit
ParamUnit == 12

\* the last point of a parameter queue: [id, value]
ParamChanges ==
    {[id |-> "none", value |-> 0]}
    \cup [id : {"kParamTTSEnabled", "kParamPitchShiftEnabled"},
          value : {0, ParamUnit}]

\* the points of the octave parameter
OctaveChanges == [id : {"kParamOctaveOffset"}, value : 0..ParamUnit]

\* std::round(num / den) for den > 0: halves away from zero
stdRound(num, den) ==
    IF num >= 0 THEN (2 * num + den) \div (2 * den)
    ELSE 0 - ((den - 2 * num) \div (2 * den))

\* process(data): parameter changes, then the event loop is entered
process(param, eventCount, n) ==
    /\ app = "plugin"
    /\ pc[HostThread] = "idle"
    /\ triggers + eventCount <= MaxTriggers
    /\ triggers' = triggers + eventCount
    /\ ttsEnabled_' = (IF param.id = "kParamTTSEnabled"
                        THEN 2 * param.value > ParamUnit
                        ELSE ttsEnabled_)
    /\ pitchShiftEnabled_' = (IF param.id = "kParamPitchShiftEnabled"
                               THEN 2 * param.value > ParamUnit
                               ELSE pitchShiftEnabled_)
    /\ octaveOffset_' = (IF param.id = "kParamOctaveOffset"
                          THEN stdRound(param.value * 6 - 3 * ParamUnit,
                                        ParamUnit)
                          ELSE octaveOffset_)
    /\ events' = eventCount
    /\ numSamples' = n
    /\ pc' = [pc EXCEPT ![HostThread] = "events"]
    /\ UNCHANGED << engineVars, synthVars, dspVars >>
    /\ UNCHANGED << app, adapterVars, standaloneVars, ttsAudioBuffer_,
                    ttsBufferMutex_, configLoaded_, sampleRate_, numChannels_,
                    note, samples, drain, historyVars >>

\* process: next note-on event; handleNoteOn: configLoaded_ check, syllable
\* lookup, logToFile, updateDisplay; speakSyllable's entry check
handleNoteOn(noteNumber) ==
    /\ app = "plugin"
    /\ pc[HostThread] = "events"
    /\ events > 0
    /\ events' = events - 1
    /\ IF /\ configLoaded_
          /\ getSyllableForNote(noteNumber) # ""
          /\ ttsEnabled_
          /\ initialized_
       THEN /\ note' = [note EXCEPT ![HostThread] = noteNumber]
            /\ pc' = [pc EXCEPT ![HostThread] = "speak"]
       ELSE UNCHANGED << note, pc >>
    /\ UNCHANGED << engineVars, synthVars, dspVars >>
    /\ UNCHANGED << app, adapterVars, standaloneVars, ttsAudioBuffer_,
                    ttsBufferMutex_, configLoaded_, ttsEnabled_,
                    pitchShiftEnabled_, octaveOffset_, sampleRate_, numSamples,
                    numChannels_, samples, drain, historyVars, triggers >>

\* speakSyllable: tts_->stop(); tts_->speak(syllable)
speakSyllableSpeak ==
    /\ app = "plugin"
    /\ pc[HostThread] = "speak"
    /\ audioBuffer_' = appendSamples(audioBuffer_,
                          Waveform(getSyllableForNote(note[HostThread])))
    /\ pc' = [pc EXCEPT ![HostThread] = "process"]
    /\ UNCHANGED << engineVars, synthVars, dspVars >>
    /\ UNCHANGED << app, initialized_, standaloneVars, pluginVars, numChannels_,
                    note, samples, drain, historyVars, triggers >>

\* speakSyllable: samples = tts_->getAudioSamples(); empty -> return;
\* processToFrequency when pitchShiftEnabled_, resample when the rates
\* differ, each followed by logToFile
speakSyllableProcess ==
    /\ app = "plugin"
    /\ pc[HostThread] = "process"
    /\ audioBuffer_' = << >>
    /\ IF Len(audioBuffer_) = 0
       THEN /\ pc' = [pc EXCEPT ![HostThread] = "events"]
            /\ note' = [note EXCEPT ![HostThread] = 0]
            /\ samples' = samples
       ELSE /\ pc' = [pc EXCEPT ![HostThread] = "lock"]
            /\ note' = note
            /\ \E y \in (IF pitchShiftEnabled_
                         THEN processToFrequency(audioBuffer_,
                                  midiNoteToFrequency(
                                      pitchNote(note[HostThread],
                                                octaveOffset_)))
                         ELSE {audioBuffer_}) :
                  samples' = [samples EXCEPT ![HostThread] =
                      rateConverted(y, TtsSampleRate, sampleRate_)]
    /\ UNCHANGED << engineVars, synthVars, dspVars >>
    /\ UNCHANGED << app, initialized_, standaloneVars, pluginVars, numChannels_,
                    drain, historyVars, triggers >>

\* speakSyllable: { std::lock_guard<std::mutex> lock(ttsBufferMutex_);
speakSyllableLock ==
    /\ app = "plugin"
    /\ pc[HostThread] = "lock"
    /\ ttsBufferMutex_ = NoThread
    /\ ttsBufferMutex_' = HostThread
    /\ pc' = [pc EXCEPT ![HostThread] = "insert"]
    /\ UNCHANGED << engineVars, synthVars, dspVars >>
    /\ UNCHANGED << app, adapterVars, standaloneVars, ttsAudioBuffer_,
                    configLoaded_, ttsEnabled_, pitchShiftEnabled_,
                    octaveOffset_, sampleRate_, events, numSamples,
                    numChannels_, note, samples, drain, historyVars, triggers >>

\* ttsAudioBuffer_.insert(ttsAudioBuffer_.end(), ...); } and return
speakSyllableInsert ==
    /\ app = "plugin"
    /\ pc[HostThread] = "insert"
    /\ ttsAudioBuffer_' = insertAtEnd(ttsAudioBuffer_, samples[HostThread])
    /\ appended' = appended \o samples[HostThread]
    /\ totalAppended' = totalAppended + Len(samples[HostThread])
    /\ ttsBufferMutex_' = NoThread
    /\ samples' = [samples EXCEPT ![HostThread] = << >>]
    /\ note' = [note EXCEPT ![HostThread] = 0]
    /\ pc' = [pc EXCEPT ![HostThread] = "events"]
    /\ UNCHANGED << engineVars, synthVars, dspVars >>
    /\ UNCHANGED << app, adapterVars, standaloneVars, configLoaded_,
                    ttsEnabled_, pitchShiftEnabled_, octaveOffset_, sampleRate_,
                    events, numSamples, numChannels_, drain, played,
                    totalConsumed, triggers >>

\* process: after the events, "if (data.numSamples > 0 && data.numOutputs > 0)"
\* calls processTTSAudio, which takes the lock; else process returns
processOutput ==
    /\ app = "plugin"
    /\ pc[HostThread] = "events"
    /\ events = 0
    /\ IF numSamples > 0
       THEN /\ ttsBufferMutex_ = NoThread
            /\ ttsBufferMutex_' = HostThread
            /\ pc' = [pc EXCEPT ![HostThread] = "drain"]
       ELSE /\ ttsBufferMutex_' = ttsBufferMutex_
            /\ pc' = [pc EXCEPT ![HostThread] = "idle"]
    /\ UNCHANGED << engineVars, synthVars, dspVars >>
    /\ UNCHANGED << app, adapterVars, standaloneVars, ttsAudioBuffer_,
                    configLoaded_, ttsEnabled_, pitchShiftEnabled_,
                    octaveOffset_, sampleRate_, events, numSamples,
                    numChannels_, note, samples, drain, historyVars, triggers >>

\* processTTSAudio body: the copy loop and the erase
processTTSAudio ==
    /\ app = "plugin"
    /\ pc[HostThread] = "drain"
    /\ ttsAudioBuffer_' = eraseConsumed(ttsAudioBuffer_, numSamples)
    /\ drain' = [numFrames |-> numSamples, numChannels |-> numChannels_,
                 before |-> ttsAudioBuffer_,
                 buffer |-> planar(ttsAudioBuffer_, numSamples, numChannels_)]
    /\ played' = played \o
           firstFrames(planar(ttsAudioBuffer_, numSamples, numChannels_),
                       Min(numSamples, Len(ttsAudioBuffer_)), numChannels_)
    /\ totalConsumed' = totalConsumed + Min(numSamples, Len(ttsAudioBuffer_))
    /\ pc' = [pc EXCEPT ![HostThread] = "written"]
    /\ UNCHANGED << engineVars, synthVars, dspVars >>
    /\ UNCHANGED << app, adapterVars, standaloneVars, ttsBufferMutex_,
                    configLoaded_, ttsEnabled_, pitchShiftEnabled_,
                    octaveOffset_, sampleRate_, events, numSamples,
                    numChannels_, note, samples, appended, totalAppended,
                    triggers >>

\* processTTSAudio and process return
processReturn ==
    /\ app = "plugin"
    /\ pc[HostThread] = "written"
    /\ ttsBufferMutex_' = NoThread
    /\ drain' = NoDrain
    /\ numSamples' = 0
    /\ pc' = [pc EXCEPT ![HostThread] = "idle"]
    /\ UNCHANGED << engineVars, synthVars, dspVars >>
    /\ UNCHANGED << app, adapterVars, standaloneVars, ttsAudioBuffer_,
                    configLoaded_, ttsEnabled_, pitchShiftEnabled_,
                    octaveOffset_, sampleRate_, events, numChannels_, note,
                    samples, historyVars, triggers >>

RelayNext ==
    \/ \E format \in Formats, ttsOk \in BOOLEAN : main(format, ttsOk)
    \/ togglePitchShift
    \/ \E t \in Triggers, n \in Notes : triggerNote(t, n)
    \/ \E t \in Triggers : triggerSpeak(t)
    \/ \E t \in Triggers : triggerProcess(t)
    \/ \E t \in Triggers : triggerLock(t)
    \/ \E t \in Triggers : triggerInsert(t)
    \/ \E t \in Triggers : triggerLog(t)
    \/ audioCallbackLock
    \/ \E f \in 1..MaxFrames : audioCallback(f)
    \/ audioCallbackReturn
    \/ pluginInitialize
    \/ \E ok \in BOOLEAN : loadMappingFile(ok)
    \/ \E format \in Formats, ok \in BOOLEAN : setupProcessing(format, ok)
    \/ \E ok \in BOOLEAN : setActive(ok)
    \/ \E p \in ParamChanges, e \in 0..MaxEvents, n \in 0..MaxFrames :
          process(p, e, n)
    \/ \E n \in Notes : handleNoteOn(n)
    \/ speakSyllableSpeak
    \/ speakSyllableProcess
    \/ speakSyllableLock
    \/ speakSyllableInsert
    \/ processOutput
    \/ processTTSAudio
    \/ processReturn

(***************************************************************************)
(* WASAPI output engine (WasapiAudio)                                       *)
(***************************************************************************)
\* threads that call the engine's API
Callers == {"main", "other"}

\* device ids handed to initialize: "" selects the default endpoint
DeviceIds == {"", "speakers", "missing"}
\* ids IMMDeviceEnumerator::GetDevice resolves
Endpoints == {"speakers"}
\* the mix format IAudioClient::GetMixFormat reports: <<rate, channels>>
MixFormat == << 48000, 2 >>
\* the buffer size IAudioClient::GetBufferSize reports, in frames
BufferFrameCount == MaxFrames - 1
\* std::function values handed to start; "" is an empty function
Callbacks == {"", "audioCallback"}

\* the calls of initialize whose failure is explored
FailStages == {"device", "activate", "initialize", "event", "service", "none"}

NoCall == [op |-> "none", arg |-> "", value |-> FALSE]

\* the steps of initialize that can fail, in code order; "none": none fails
StageOrder == << "com", "enumerator", "device", "activate", "mixFormat",
                 "initialize", "bufferSize", "event", "eventHandle", "service",
                 "none" >>
StageIndex(stage) == CHOOSE i \in 1..Len(StageOrder) : StageOrder[i] = stage

\* a member written by the call at `stage` when initialize fails at `failAt`:
\* untouched if the call is not reached, the failure value (COM and
\* CreateEvent hand back null on failure) if it fails, else the result
outParam(stage, failAt, old, result, failure) ==
    IF StageIndex(failAt) < StageIndex(stage) THEN old
    ELSE IF failAt = stage THEN failure
    ELSE result

\* variant: the failing lookup of a device id leaves no diagnostic
noDeviceError(deviceId) == ""

\* lastError_ of a failing GetDevice
deviceError(deviceId) == "Failed to get audio device: " \o deviceId

\* lastError_ set by initialize when `stage` fails
initializeError(stage, deviceId) ==
    CASE stage = "com" -> "Failed to initialize COM"
      [] stage = "enumerator" -> "Failed to create device enumerator"
      [] stage = "device" ->
             IF deviceId = "" THEN "Failed to get default audio device"
             ELSE deviceError(deviceId)
      [] stage = "activate" -> "Failed to activate audio client"
      [] stage = "mixFormat" -> "Failed to get mix format"
      [] stage = "initialize" -> "Failed to initialize audio client (hr=)"
      [] stage = "bufferSize" -> "Failed to get buffer size"
      [] stage = "event" -> "Failed to create audio event"
      [] stage = "eventHandle" -> "Failed to set event handle"
      [] stage = "service" -> "Failed to get render client"

\* the audio client object after initialize, by the stage that failed
clientAfter(failAt, old) ==
    IF StageIndex(failAt) < StageIndex("activate") THEN old
    ELSE IF failAt = "activate" THEN "null"
    ELSE IF StageIndex(failAt) <= StageIndex("initialize") THEN "activated"
    ELSE IF StageIndex(failAt) <= StageIndex("eventHandle") THEN "initialized"
    ELSE "ready"

\* variant: start never takes its early return
neverRunning(running) == FALSE

\* start: if (running_) return true
alreadyRunning(running) == running

\* start: if (!audioClient_ || !renderClient_)
notInitialized(audioClient, renderClient) ==
    audioClient = "null" \/ ~renderClient

\* variant: the thread is never found joinable, so never joined
neverJoinable(thread) == FALSE

\* audioThread_.joinable()
joinable(thread) == thread

\* the loop body has made no device call
NoCycle == [outcome |-> "none", padding |-> 0, requested |-> 0, fills |-> 0,
            by |-> "", filled |-> 0, released |-> 0]

EngineInit ==
    /\ audioClient_ = "null"
    /\ renderClient_ = FALSE
    /\ waveFormat_ = FALSE
    /\ bufferFrames_ = 0
    /\ running_ = FALSE
    /\ audioThread_ = FALSE
    /\ callback_ = ""
    /\ lastError_ = ""
    /\ audioEvent_ = FALSE
    /\ eventSignaled = FALSE
    /\ abandonedStream = FALSE
    /\ cpc = [c \in Callers |-> "idle"]
    /\ cop = [c \in Callers |-> "none"]
    /\ wpc = "none"
    /\ availableFrames = 0
    /\ liveWorkers = 0
    /\ cycle = NoCycle
    /\ fault = "none"
    /\ destroyed = FALSE
    /\ ret = [c \in Callers |-> NoCall]
    /\ session = "Uninitialized"
    /\ joins = 0

\* the process runs and the engine object exists
Alive == fault = "none" /\ ~destroyed

\* no other thread is inside a call
OthersIdle(c) == \A d \in Callers \ {c} : cpc[d] = "idle"

\* other threads are inside stop(), if in any call
OthersIdleOrStopping(c) ==
    \A d \in Callers \ {c} : cpc[d] = "idle" \/ cop[d] = "stop"

\* a call of thread c returns
Return(c, op, arg, value) ==
    /\ ret' = [ret EXCEPT ![c] = [op |-> op, arg |-> arg, value |-> value]]
    /\ cpc' = [cpc EXCEPT ![c] = "idle"]
    /\ cop' = [cop EXCEPT ![c] = "none"]

\* initialize(deviceId, bufferMs): the calls up to the one that fails
\* (failAt).  deviceEnumerator_ and device_ are only written here and
\* released by the destructor; the requested duration only reaches the
\* device.
initialize(c, deviceId, failAt) ==
    /\ Alive
    /\ cpc[c] = "idle"
    /\ OthersIdle(c)
    /\ (deviceId # "" /\ deviceId \notin Endpoints) =>
           StageIndex(failAt) <= StageIndex("device")
    /\ audioClient_' = clientAfter(failAt, audioClient_)
    /\ waveFormat_' = outParam("mixFormat", failAt, waveFormat_, TRUE, FALSE)
    /\ sampleRate_' = outParam("mixFormat", failAt, sampleRate_,
                               MixFormat[1], sampleRate_)
    /\ numChannels_' = outParam("mixFormat", failAt, numChannels_,
                                MixFormat[2], numChannels_)
    /\ bufferFrames_' = outParam("bufferSize", failAt, bufferFrames_,
                                 BufferFrameCount, bufferFrames_)
    /\ audioEvent_' = outParam("event", failAt, audioEvent_, TRUE, FALSE)
    /\ eventSignaled' = outParam("event", failAt, eventSignaled, FALSE, FALSE)
    /\ renderClient_' = outParam("service", failAt, renderClient_, TRUE, FALSE)
    /\ abandonedStream' =
           IF StageIndex(failAt) >= StageIndex("event") THEN FALSE
           ELSE IF StageIndex(failAt) >= StageIndex("activate")
                   /\ audioClient_ = "started" THEN TRUE
           ELSE abandonedStream
    /\ lastError_' = IF failAt = "none" THEN lastError_
                     ELSE initializeError(failAt, deviceId)
    /\ session' = IF failAt = "none" THEN "Initialized" ELSE "Uninitialized"
    /\ Return(c, "initialize", "", failAt = "none")
    /\ UNCHANGED << relayOnlyVars, running_, audioThread_, callback_,
                    workerVars, fault, destroyed, joins >>

\* start(callback) up to the spawn of the worker: early returns, callback_,
\* running_, audioThread_ = std::thread(...) (assigning to a joinable
\* std::thread ends the process in std::terminate)
start(c, callback) ==
    /\ Alive
    /\ cpc[c] = "idle"
    /\ OthersIdle(c)
    /\ IF alreadyRunning(running_)
       THEN /\ Return(c, "start", callback, TRUE)
            /\ UNCHANGED << lastError_, callback_, running_, audioThread_,
                            wpc, liveWorkers, fault, joins >>
       ELSE IF notInitialized(audioClient_, renderClient_)
       THEN /\ lastError_' = "Audio not initialized"
            /\ Return(c, "start", callback, FALSE)
            /\ UNCHANGED << callback_, running_, audioThread_, wpc,
                            liveWorkers, fault, joins >>
       ELSE /\ callback_' = callback
            /\ running_' = TRUE
            /\ liveWorkers' = liveWorkers + 1
            /\ wpc' = "loop"
            /\ audioThread_' = TRUE
            /\ fault' = IF audioThread_ THEN "terminate" ELSE fault
            /\ joins' = 0
            /\ cpc' = [cpc EXCEPT ![c] = "startStart"]
            /\ cop' = [cop EXCEPT ![c] = "start"]
            /\ UNCHANGED << lastError_, ret >>
    /\ UNCHANGED << relayOnlyVars, sampleRate_, numChannels_, comVars,
                    eventVars, availableFrames, cycle, destroyed, session >>

\* variant: the rollback leaves the flag as it is
rollbackKeepsRunning(running) == running

\* start, if (FAILED(hr)): running_ = false
rollback(running) == FALSE

\* start: audioClient_->Start(); on failure running_ = false and the
\* rollback joins the worker
startStart(c, ok) ==
    /\ Alive
    /\ cpc[c] = "startStart"
    /\ ok => audioClient_ = "ready"
    /\ IF audioClient_ = "null"
       THEN /\ fault' = "null pointer"
            /\ UNCHANGED << audioClient_, running_, cpc, cop, ret >>
       ELSE IF ok
       THEN /\ audioClient_' = "started"
            /\ Return(c, "start", callback_, TRUE)
            /\ UNCHANGED << running_, fault >>
       ELSE /\ running_' = rollback(running_)
            /\ cpc' = [cpc EXCEPT ![c] = "startJoin"]
            /\ UNCHANGED << audioClient_, cop, ret, fault >>
    /\ UNCHANGED << relayOnlyVars, sampleRate_, numChannels_,
                    renderClient_, waveFormat_,
                    bufferFrames_, audioEvent_, audioThread_, callback_,
                    lastError_, eventVars, workerVars, destroyed, session, joins >>

\* start, rollback: if (audioThread_.joinable()) audioThread_.join();
\* lastError_; return false.  join() returns once the worker has exited.
startJoin(c) ==
    /\ Alive
    /\ cpc[c] = "startJoin"
    /\ joinable(audioThread_) => wpc = "none"
    /\ audioThread_' = FALSE
    /\ joins' = IF joinable(audioThread_) THEN joins + 1 ELSE joins
    /\ lastError_' = "Failed to start audio client"
    /\ Return(c, "start", callback_, FALSE)
    /\ UNCHANGED << relayOnlyVars, sampleRate_, numChannels_, comVars,
                    running_, callback_, eventVars, workerVars, fault,
                    destroyed, session >>

\* stop() is entered, directly or from the destructor: if (!running_) return
stop(c, op) ==
    /\ Alive
    /\ cpc[c] = "idle"
    /\ IF op = "stop" THEN OthersIdleOrStopping(c) ELSE OthersIdle(c)
    /\ IF ~running_
       THEN IF op = "stop"
            THEN Return(c, "stop", "", TRUE)
            ELSE /\ cpc' = [cpc EXCEPT ![c] = "release"]
                 /\ cop' = [cop EXCEPT ![c] = op]
                 /\ ret' = ret
       ELSE /\ cpc' = [cpc EXCEPT ![c] = "stopSet"]
            /\ cop' = [cop EXCEPT ![c] = op]
            /\ ret' = ret
    /\ UNCHANGED << relayOnlyVars, sampleRate_, numChannels_, comVars,
                    running_, audioThread_, callback_, lastError_, eventVars,
                    workerVars, fault, destroyed, session,
                    joins >>

\* stop: running_ = false; if (audioEvent_) SetEvent(audioEvent_)
stopSet(c) ==
    /\ Alive
    /\ cpc[c] = "stopSet"
    /\ running_' = FALSE
    /\ eventSignaled' = (audioEvent_ \/ eventSignaled)
    /\ cpc' = [cpc EXCEPT ![c] = "stopJoinable"]
    /\ UNCHANGED << relayOnlyVars, sampleRate_, numChannels_, comVars,
                    audioThread_, callback_, lastError_, abandonedStream, cop,
                    workerVars, fault, destroyed, engineHistoryVars >>

\* stop: if (audioThread_.joinable())
stopJoinable(c) ==
    /\ Alive
    /\ cpc[c] = "stopJoinable"
    /\ cpc' = [cpc EXCEPT ![c] =
                  IF joinable(audioThread_) THEN "stopJoin" ELSE "stopHalt"]
    /\ UNCHANGED << relayOnlyVars, sampleRate_, numChannels_, comVars,
                    running_, audioThread_, callback_, lastError_, eventVars,
                    cop, workerVars, fault, destroyed, engineHistoryVars >>

\* stop: audioThread_.join(), which returns once the worker has exited.  If
\* another thread has joined since the joinable() test, the call is on a
\* std::thread that is no longer joinable: it returns after a second join of
\* the same thread (again = TRUE) or throws std::system_error, which nothing
\* catches.
stopJoin(c, again) ==
    /\ Alive
    /\ cpc[c] = "stopJoin"
    /\ wpc = "none"
    /\ IF audioThread_
       THEN /\ audioThread_' = FALSE
            /\ joins' = joins + 1
            /\ fault' = fault
       ELSE /\ audioThread_' = audioThread_
            /\ joins' = IF again THEN joins + 1 ELSE joins
            /\ fault' = IF again THEN fault ELSE "join"
    /\ cpc' = [cpc EXCEPT ![c] = "stopHalt"]
    /\ UNCHANGED << relayOnlyVars, sampleRate_, numChannels_, comVars,
                    running_, callback_, lastError_, eventVars, cop,
                    workerVars, destroyed, ret, session >>

\* stop: if (audioClient_) { Stop(); Reset(); } and return
stopHalt(c) ==
    /\ Alive
    /\ cpc[c] = "stopHalt"
    /\ audioClient_' = IF audioClient_ = "started" THEN "ready"
                       ELSE audioClient_
    /\ session' = IF session = "Initialized" THEN "Stopped" ELSE session
    /\ IF cop[c] = "stop"
       THEN Return(c, "stop", "", TRUE)
       ELSE /\ cpc' = [cpc EXCEPT ![c] = "release"]
            /\ UNCHANGED << cop, ret >>
    /\ UNCHANGED << relayOnlyVars, sampleRate_, numChannels_,
                    renderClient_, waveFormat_,
                    bufferFrames_, audioEvent_, running_, audioThread_,
                    callback_, lastError_, eventVars, workerVars, fault,
                    destroyed, joins >>

\* ~WasapiAudio after stop(): the format, the COM objects and the event are
\* released
release(c) ==
    /\ Alive
    /\ cpc[c] = "release"
    /\ audioClient_' = "null"
    /\ renderClient_' = FALSE
    /\ waveFormat_' = FALSE
    /\ audioEvent_' = FALSE
    /\ eventSignaled' = FALSE
    /\ destroyed' = TRUE
    /\ Return(c, "destroy", "", TRUE)
    /\ UNCHANGED << relayOnlyVars, sampleRate_, numChannels_, bufferFrames_,
                    running_, audioThread_, callback_, lastError_,
                    abandonedStream, workerVars, fault, session, joins >>

\* the device signals the event of a started stream (buffer space is free)
deviceSignal ==
    /\ Alive
    /\ audioClient_ = "started" \/ abandonedStream
    /\ audioEvent_
    /\ ~eventSignaled
    /\ eventSignaled' = TRUE
    /\ UNCHANGED << relayOnlyVars, sampleRate_, numChannels_, comVars,
                    running_, audioThread_, callback_, lastError_,
                    abandonedStream, cpc, cop, workerVars, fault, destroyed,
                    engineHistoryVars >>

\* audioThread: while (running_)
workerLoop ==
    /\ Alive
    /\ wpc = "loop"
    /\ wpc' = IF running_ THEN "wait" ELSE "none"
    /\ liveWorkers' = IF running_ THEN liveWorkers ELSE liveWorkers - 1
    /\ cycle' = NoCycle
    /\ UNCHANGED << relayOnlyVars, sampleRate_, numChannels_, comVars,
                    running_, audioThread_, callback_, lastError_, eventVars,
                    cpc, cop, availableFrames, fault, destroyed,
                    engineHistoryVars >>

\* audioThread: WaitForSingleObject(audioEvent_, 100) returns WAIT_OBJECT_0
\* (signaled; the auto-reset event is consumed) or not (time-out, or a null
\* handle); if (!running_) break; if (result != WAIT_OBJECT_0) continue
workerWait(signaled) ==
    /\ Alive
    /\ wpc = "wait"
    /\ signaled = (audioEvent_ /\ eventSignaled)
    /\ eventSignaled' = (eventSignaled /\ ~signaled)
    /\ wpc' = IF ~running_ THEN "none"
              ELSE IF signaled THEN "render" ELSE "loop"
    /\ liveWorkers' = IF ~running_ THEN liveWorkers - 1 ELSE liveWorkers
    /\ UNCHANGED << relayOnlyVars, sampleRate_, numChannels_, comVars,
                    running_, audioThread_, callback_, lastError_,
                    abandonedStream, cpc, cop, availableFrames, cycle, fault,
                    destroyed, engineHistoryVars >>

\* variant: the whole device buffer is asked for, whatever it still holds
wholeBuffer(bufferFrames, padding) == bufferFrames

\* UINT32 availableFrames = bufferFrames_ - padding
framesToRequest(bufferFrames, padding) == bufferFrames - padding

\* variant: a failed device call ends the worker's loop
breakLoop(position) == "none"

\* if (FAILED(hr)) continue: the worker is back at the loop's test
skipCycle(position) == "loop"

\* the loop body's fill of the buffer and ReleaseBuffer(availableFrames, 0):
\* one call of callback_ for availableFrames frames, or memset when
\* callback_ is empty
filledAndReleased(c, callback, frames) ==
    [c EXCEPT !.fills = @ + 1,
              !.by = IF callback # "" THEN "callback" ELSE "memset",
              !.filled = frames,
              !.released = frames]

\* audioThread: GetCurrentPadding, availableFrames, GetBuffer, the format
\* test; a failing call or no free frame -> continue.  A null audioClient_,
\* renderClient_ or waveFormat_ is dereferenced.
workerRender(padding, paddingOk, bufferOk) ==
    /\ Alive
    /\ wpc = "render"
    /\ padding <= bufferFrames_
    /\ paddingOk => audioClient_ \notin {"null", "activated"}
    /\ IF audioClient_ = "null"
       THEN /\ fault' = "null pointer"
            /\ UNCHANGED << wpc, availableFrames, cycle >>
       ELSE IF ~paddingOk
       THEN /\ wpc' = skipCycle(wpc)
            /\ cycle' = [NoCycle EXCEPT !.outcome = "GetCurrentPadding failed"]
            /\ UNCHANGED << fault, availableFrames >>
       ELSE IF framesToRequest(bufferFrames_, padding) = 0
       THEN /\ wpc' = "loop"
            /\ cycle' = [NoCycle EXCEPT !.outcome = "no free frame",
                                        !.padding = padding]
            /\ UNCHANGED << fault, availableFrames >>
       ELSE IF ~renderClient_
       THEN /\ fault' = "null pointer"
            /\ UNCHANGED << wpc, availableFrames, cycle >>
       ELSE IF ~bufferOk
       THEN /\ wpc' = skipCycle(wpc)
            /\ cycle' = [NoCycle EXCEPT !.outcome = "GetBuffer failed",
                                        !.padding = padding]
            /\ UNCHANGED << fault, availableFrames >>
       ELSE IF ~waveFormat_
       THEN /\ fault' = "null pointer"
            /\ UNCHANGED << wpc, availableFrames, cycle >>
       ELSE /\ wpc' = "callback"
            /\ availableFrames' = framesToRequest(bufferFrames_, padding)
            /\ cycle' = [NoCycle EXCEPT
                             !.outcome = "buffer",
                             !.padding = padding,
                             !.requested =
                                 framesToRequest(bufferFrames_, padding)]
            /\ fault' = fault
    /\ UNCHANGED << relayOnlyVars, sampleRate_, numChannels_, comVars,
                    running_, audioThread_, callback_, lastError_, eventVars,
                    cpc, cop, liveWorkers, destroyed, engineHistoryVars >>

\* audioThread: callback_(buffer, availableFrames, numChannels_) (or
\* silence when callback_ is empty), conversion, ReleaseBuffer
workerCallback ==
    /\ Alive
    /\ wpc = "callback"
    /\ wpc' = "loop"
    /\ availableFrames' = 0
    /\ cycle' = filledAndReleased(cycle, callback_, availableFrames)
    /\ UNCHANGED << relayOnlyVars, sampleRate_, numChannels_, comVars,
                    running_, audioThread_, callback_, lastError_, eventVars,
                    cpc, cop, liveWorkers, fault, destroyed,
                    engineHistoryVars >>

\* calls made one at a time from the owning thread, and the worker
EngineNext ==
    \/ \E id \in DeviceIds, failAt \in FailStages :
          initialize("main", id, failAt)
    \/ \E cb \in Callbacks : start("main", cb)
    \/ \E ok \in BOOLEAN : startStart("main", ok)
    \/ startJoin("main")
    \/ \E op \in {"stop", "destroy"} : stop("main", op)
    \/ stopSet("main")
    \/ stopJoinable("main")
    \/ \E again \in BOOLEAN : stopJoin("main", again)
    \/ stopHalt("main")
    \/ release("main")
    \/ deviceSignal
    \/ workerLoop
    \/ \E signaled \in BOOLEAN : workerWait(signaled)
    \/ \E padding \in 0..BufferFrameCount, paddingOk \in BOOLEAN, bufferOk \in BOOLEAN :
          workerRender(padding, paddingOk, bufferOk)
    \/ workerCallback

\* the same, with a second thread that calls stop()
StopRaceNext ==
    \/ EngineNext
    \/ stop("other", "stop")
    \/ stopSet("other")
    \/ stopJoinable("other")
    \/ \E again \in BOOLEAN : stopJoin("other", again)
    \/ stopHalt("other")

(***************************************************************************)
(* Speech synthesis adapter, call by call and lock by lock.  The calling    *)
(* threads are the trigger threads; with app = "none" they call the         *)
(* adapter directly.                                                        *)
(***************************************************************************)
\* number of setter calls and of speak calls in one run
MaxSets == 2
MaxSpeaks == 2

\* arguments handed to initialize and to the setters
SampleRates == {TtsSampleRate, 48000}
Voices == {"de"}
Arguments == {0 - 1, 90, 1000}

\* the relay's variables the adapter has no part in
hostVars == << app, standaloneVars, pluginVars, numChannels_, drain,
               historyVars, triggers, dspVars >>

\* where a thread continues when speak() / getAudioSamples() returns
afterSpeak == IF app = "none" THEN "idle" ELSE "process"
afterGetAudioSamples == IF app = "none" THEN "idle" ELSE "shift"

\* espeak_Cancel: the library drops what it has not delivered yet
cancelled == [t \in Threads |-> << >>]

\* initialize(sampleRate)
callInitialize(t, sampleRate, dll, initOk) ==
    /\ app = "none"
    /\ pc[t] = "idle"
    /\ LET s == ttsInitialize(AdapterState, sampleRate, dll, initOk)
       IN  /\ SetAdapter(s)
           /\ called' = [op |-> "initialize", value |-> s.initialized_]
    /\ UNCHANGED << hostVars, engineVars, twinVars, audioBuffer_, threadVars, speaking_,
                    currentInstance_, instanceMutex_, bufferMutex_, pending,
                    chunk, emitted, stored, taken, sets, speaks >>

\* shutdown(), with the stop() it makes: espeak_Cancel and speaking_ = false
\* if (initialized_ && fn_Cancel_)
callShutdown(t) ==
    /\ app = "none"
    /\ pc[t] = "idle"
    /\ SetAdapter(ttsShutdown(AdapterState))
    /\ IF initialized_ /\ fn_Terminate_(tts) /\ fn_Cancel_(tts)
       THEN speaking_' = FALSE /\ pending' = cancelled
       ELSE UNCHANGED << speaking_, pending >>
    /\ called' = [op |-> "shutdown", value |-> TRUE]
    /\ UNCHANGED << hostVars, engineVars, twinVars, audioBuffer_, threadVars,
                    currentInstance_, instanceMutex_, bufferMutex_, chunk,
                    emitted, stored, taken, sets, speaks >>

\* setVoice(voice)
callSetVoice(t, voice) ==
    /\ app = "none"
    /\ pc[t] = "idle"
    /\ sets < MaxSets
    /\ sets' = sets + 1
    /\ SetAdapter(ttsSetVoice(AdapterState, voice))
    /\ called' = [op |-> "setVoice", value |-> TRUE]
    /\ UNCHANGED << hostVars, engineVars, twinVars, audioBuffer_, threadVars, speaking_,
                    currentInstance_, instanceMutex_, bufferMutex_, pending,
                    chunk, emitted, stored, taken, speaks >>

\* setRate(rate)
callSetRate(t, rate) ==
    /\ app = "none"
    /\ pc[t] = "idle"
    /\ sets < MaxSets
    /\ sets' = sets + 1
    /\ SetAdapter(ttsSetRate(AdapterState, rate))
    /\ called' = [op |-> "setRate", value |-> TRUE]
    /\ UNCHANGED << hostVars, engineVars, twinVars, audioBuffer_, threadVars, speaking_,
                    currentInstance_, instanceMutex_, bufferMutex_, pending,
                    chunk, emitted, stored, taken, speaks >>

\* setPitch(pitch)
callSetPitch(t, pitch) ==
    /\ app = "none"
    /\ pc[t] = "idle"
    /\ sets < MaxSets
    /\ sets' = sets + 1
    /\ SetAdapter(ttsSetPitch(AdapterState, pitch))
    /\ called' = [op |-> "setPitch", value |-> TRUE]
    /\ UNCHANGED << hostVars, engineVars, twinVars, audioBuffer_, threadVars, speaking_,
                    currentInstance_, instanceMutex_, bufferMutex_, pending,
                    chunk, emitted, stored, taken, speaks >>

\* setVolume(volume)
callSetVolume(t, volume) ==
    /\ app = "none"
    /\ pc[t] = "idle"
    /\ sets < MaxSets
    /\ sets' = sets + 1
    /\ SetAdapter(ttsSetVolume(AdapterState, volume))
    /\ called' = [op |-> "setVolume", value |-> TRUE]
    /\ UNCHANGED << hostVars, engineVars, twinVars, audioBuffer_, threadVars, speaking_,
                    currentInstance_, instanceMutex_, bufferMutex_, pending,
                    chunk, emitted, stored, taken, speaks >>

\* stop(): if (initialized_ && fn_Cancel_) { espeak_Cancel(); speaking_ =
\* false; }
callStop(t) ==
    /\ app = "none"
    /\ pc[t] = "idle"
    /\ IF initialized_ /\ fn_Cancel_(tts)
       THEN speaking_' = FALSE /\ pending' = cancelled
       ELSE UNCHANGED << speaking_, pending >>
    /\ called' = [op |-> "stop", value |-> TRUE]
    /\ UNCHANGED << hostVars, engineVars, twinVars, adapterVars, threadVars, tts, espeak,
                    currentInstance_, instanceMutex_, bufferMutex_, chunk,
                    emitted, stored, taken, sets, speaks >>

\* a direct call of speak(text), text being the syllable of a note
callSpeak(t, midiNote) ==
    /\ app = "none"
    /\ pc[t] = "idle"
    /\ speaks < MaxSpeaks
    /\ speaks' = speaks + 1
    /\ note' = [note EXCEPT ![t] = midiNote]
    /\ pc' = [pc EXCEPT ![t] = "speak"]
    /\ UNCHANGED << hostVars, engineVars, twinVars, adapterVars, samples, tts, espeak,
                    speaking_, currentInstance_, instanceMutex_, bufferMutex_,
                    pending, chunk, emitted, stored, taken, called, sets >>

\* speak(text), entry: the early return
speak(t) ==
    /\ pc[t] = "speak"
    /\ IF speakRefused(StateOf(self[t]), getSyllableForNote(note[t]))
       THEN /\ pc' = [pc EXCEPT ![t] = afterSpeak]
            /\ called' = [op |-> "speak", value |-> FALSE]
            /\ self' = [self EXCEPT ![t] = "this"]
       ELSE /\ pc' = [pc EXCEPT ![t] = "speakInstance"]
            /\ called' = called
            /\ self' = self
    /\ UNCHANGED << hostVars, engineVars, twin, adapterVars, note, samples, tts,
                    espeak, speaking_, currentInstance_, instanceMutex_,
                    bufferMutex_, pending, chunk, emitted, stored, taken, sets,
                    speaks >>

\* speak: { lock_guard lock(instanceMutex_); currentInstance_ = this; }
speakInstance(t) ==
    /\ pc[t] = "speakInstance"
    /\ instanceMutex_ = NoThread
    /\ currentInstance_' = self[t]
    /\ pc' = [pc EXCEPT ![t] = "speakSynth"]
    /\ UNCHANGED << hostVars, engineVars, twinVars, adapterVars, note, samples, tts,
                    espeak, speaking_, instanceMutex_, bufferMutex_, pending,
                    chunk, emitted, stored, taken, called, sets, speaks >>

\* speak: speaking_ = true; espeak_Synth(text, ...) is entered
speakSynth(t) ==
    /\ pc[t] = "speakSynth"
    /\ IF self[t] = "other"
       THEN /\ twin' = [twin EXCEPT !.speaking_ = TRUE]
            /\ speaking_' = speaking_
       ELSE /\ speaking_' = TRUE
            /\ twin' = twin
    /\ pending' = [pending EXCEPT ![t] = Waveform(getSyllableForNote(note[t]))]
    /\ pc' = [pc EXCEPT ![t] = "synth"]
    /\ UNCHANGED << hostVars, engineVars, self, adapterVars, note, samples, tts,
                    espeak, currentInstance_, instanceMutex_, bufferMutex_,
                    chunk, emitted, stored, taken, called, sets, speaks >>

\* the library calls synthCallbackStatic(wav, numsamples, events) on the
\* speaking thread with the next k samples, and a last time with none:
\* lock_guard lock(instanceMutex_) and the test.  A chunk that is not
\* appended is dropped and the callback returns.
synthCallbackStatic(t, k) ==
    /\ pc[t] = "synth"
    /\ instanceMutex_ = NoThread
    /\ k <= Len(pending[t])
    /\ (k = 0) = (Len(pending[t]) = 0)
    /\ LET wav == SubSeq(pending[t], 1, k)
       IN  /\ chunk' = [chunk EXCEPT ![t] = wav]
           /\ pending' = [pending EXCEPT ![t] =
                             SubSeq(pending[t], k + 1, Len(pending[t]))]
           /\ emitted' = appendSamples(emitted, wav)
           /\ IF callbackAppends(currentInstance_, wav)
              THEN /\ instanceMutex_' = t
                   /\ pc' = [pc EXCEPT ![t] = "appendSamples"]
              ELSE /\ instanceMutex_' = instanceMutex_
                   /\ pc' = [pc EXCEPT ![t] =
                                IF k = 0 THEN "synchronize" ELSE "synth"]
    /\ UNCHANGED << hostVars, engineVars, twinVars, adapterVars, note, samples, tts,
                    espeak, speaking_, currentInstance_, bufferMutex_, stored,
                    taken, called, sets, speaks >>

\* currentInstance_->appendSamples: lock_guard lock(bufferMutex_), the
\* mutex of the adapter currentInstance_ points to
appendSamplesLock(t) ==
    /\ pc[t] = "appendSamples"
    /\ IF currentInstance_ = "other"
       THEN /\ twin.bufferMutex_ = NoThread
            /\ twin' = [twin EXCEPT !.bufferMutex_ = t]
            /\ bufferMutex_' = bufferMutex_
       ELSE /\ bufferMutex_ = NoThread
            /\ bufferMutex_' = t
            /\ twin' = twin
    /\ pc' = [pc EXCEPT ![t] = "push_back"]
    /\ UNCHANGED << hostVars, engineVars, self, adapterVars, note, samples, tts,
                    espeak, speaking_, currentInstance_, instanceMutex_,
                    pending, chunk, emitted, stored, taken, called, sets,
                    speaks >>

\* appendSamples: the push_back loop; both lock_guards are released as
\* appendSamples and the callback return
appendSamplesPush(t) ==
    /\ pc[t] = "push_back"
    /\ IF currentInstance_ = "other"
       THEN /\ twin' = [twin EXCEPT
                            !.audioBuffer_ = appendSamples(@, chunk[t]),
                            !.bufferMutex_ = NoThread]
            /\ UNCHANGED << audioBuffer_, stored, bufferMutex_ >>
       ELSE /\ audioBuffer_' = appendSamples(audioBuffer_, chunk[t])
            /\ stored' = appendSamples(stored, chunk[t])
            /\ bufferMutex_' = NoThread
            /\ twin' = twin
    /\ instanceMutex_' = callbackReturns(instanceMutex_)
    /\ chunk' = [chunk EXCEPT ![t] = << >>]
    /\ pc' = [pc EXCEPT ![t] = "synth"]
    /\ UNCHANGED << hostVars, engineVars, self, initialized_, note, samples, tts,
                    espeak, speaking_, currentInstance_, pending, emitted,
                    taken, called, sets, speaks >>

\* speak: espeak_Synchronize() returns; speaking_ = false
speakSynchronize(t) ==
    /\ pc[t] = "synchronize"
    /\ IF self[t] = "other"
       THEN /\ twin' = [twin EXCEPT !.speaking_ = FALSE]
            /\ speaking_' = speaking_
       ELSE /\ speaking_' = FALSE
            /\ twin' = twin
    /\ pc' = [pc EXCEPT ![t] = "speakReturn"]
    /\ UNCHANGED << hostVars, engineVars, self, adapterVars, note, samples, tts,
                    espeak, currentInstance_, instanceMutex_, bufferMutex_,
                    pending, chunk, emitted, stored, taken, called, sets,
                    speaks >>

\* speak: { lock_guard lock(instanceMutex_); currentInstance_ = nullptr; }
\* and return
speakReturn(t) ==
    /\ pc[t] = "speakReturn"
    /\ instanceMutex_ = NoThread
    /\ currentInstance_' = "null"
    /\ called' = [op |-> "speak", value |-> TRUE]
    /\ pc' = [pc EXCEPT ![t] = afterSpeak]
    /\ self' = [self EXCEPT ![t] = "this"]
    /\ UNCHANGED << hostVars, engineVars, twin, adapterVars, note, samples, tts,
                    espeak, speaking_, instanceMutex_, bufferMutex_, pending,
                    chunk, emitted, stored, taken, sets, speaks >>

\* a direct call of getAudioSamples()
callGetAudioSamples(t) ==
    /\ app = "none"
    /\ pc[t] = "idle"
    /\ pc' = [pc EXCEPT ![t] = "process"]
    /\ UNCHANGED << hostVars, engineVars, adapterVars, note, samples,
                    synthVars >>

\* getAudioSamples: lock_guard lock(bufferMutex_)
getAudioSamplesLock(t) ==
    /\ pc[t] = "process"
    /\ bufferMutex_ = NoThread
    /\ bufferMutex_' = t
    /\ pc' = [pc EXCEPT ![t] = "move"]
    /\ UNCHANGED << hostVars, engineVars, twinVars, adapterVars, note, samples, tts,
                    espeak, speaking_, currentInstance_, instanceMutex_,
                    pending, chunk, emitted, stored, taken, called, sets,
                    speaks >>

\* getAudioSamples: samples = std::move(audioBuffer_); audioBuffer_.clear();
\* return samples (the lock_guard is released)
getAudioSamples(t) ==
    /\ pc[t] = "move"
    /\ samples' = [samples EXCEPT ![t] = audioBuffer_]
    /\ taken' = taken \o audioBuffer_
    /\ audioBuffer_' = movedFrom(audioBuffer_)
    /\ bufferMutex_' = releasedOnReturn(bufferMutex_)
    /\ called' = [op |-> "getAudioSamples", value |-> TRUE]
    /\ pc' = [pc EXCEPT ![t] = afterGetAudioSamples]
    /\ UNCHANGED << hostVars, engineVars, twinVars, initialized_, note, tts, espeak,
                    speaking_, currentInstance_, instanceMutex_, pending,
                    chunk, emitted, stored, sets, speaks >>

\* initialize(22050) on the twin, with a complete library
twinInitialize(t) ==
    /\ app = "none"
    /\ pc[t] = "idle"
    /\ LET s == ttsInitialize(TwinState, TtsSampleRate, "all", TRUE)
       IN  /\ twin' = [twin EXCEPT !.initialized_ = s.initialized_,
                                   !.tts = s.tts]
           /\ espeak' = s.espeak
    /\ UNCHANGED << hostVars, engineVars, adapterVars, threadVars, tts,
                    speaking_, currentInstance_, instanceMutex_, bufferMutex_,
                    pending, chunk, emitted, stored, taken, called, sets,
                    speaks, self >>

\* a direct call of speak(text) on the twin
twinSpeak(t, midiNote) ==
    /\ app = "none"
    /\ pc[t] = "idle"
    /\ speaks < MaxSpeaks
    /\ speaks' = speaks + 1
    /\ note' = [note EXCEPT ![t] = midiNote]
    /\ self' = [self EXCEPT ![t] = "other"]
    /\ pc' = [pc EXCEPT ![t] = "speak"]
    /\ UNCHANGED << hostVars, engineVars, adapterVars, samples, tts, espeak,
                    speaking_, currentInstance_, instanceMutex_, bufferMutex_,
                    pending, chunk, emitted, stored, taken, called, sets,
                    twin >>

\* one thread configures the adapter: initialize, shutdown and the setters
\* in any order
ConfigureNext ==
    \/ \E rate \in SampleRates, dll \in Dlls, initOk \in BOOLEAN :
          callInitialize("t1", rate, dll, initOk)
    \/ callShutdown("t1")
    \/ \E voice \in Voices : callSetVoice("t1", voice)
    \/ \E rate \in Arguments : callSetRate("t1", rate)
    \/ \E pitch \in Arguments : callSetPitch("t1", pitch)
    \/ \E volume \in Arguments : callSetVolume("t1", volume)

\* one thread ("t1") initializes, speaks, fetches the samples and shuts
\* down; a second ("t2") calls getAudioSamples() and stop() while it does
SpeechNext ==
    \/ \E dll \in Dlls, initOk \in BOOLEAN :
          callInitialize("t1", TtsSampleRate, dll, initOk)
    \/ callShutdown("t1")
    \/ \E n \in Notes : callSpeak("t1", n)
    \/ speak("t1")
    \/ speakInstance("t1")
    \/ speakSynth("t1")
    \/ \E k \in 0..2 : synthCallbackStatic("t1", k)
    \/ appendSamplesLock("t1")
    \/ appendSamplesPush("t1")
    \/ speakSynchronize("t1")
    \/ speakReturn("t1")
    \/ \E t \in Triggers : callGetAudioSamples(t)
    \/ \E t \in Triggers : getAudioSamplesLock(t)
    \/ \E t \in Triggers : getAudioSamples(t)
    \/ callStop("t2")

\* two adapters in one process: "t1" initializes the first and speaks on
\* it, "t2" initializes the twin and speaks on it
InstancesNext ==
    \/ callInitialize("t1", TtsSampleRate, "all", TRUE)
    \/ twinInitialize("t2")
    \/ \E n \in Notes : callSpeak("t1", n)
    \/ \E n \in Notes : twinSpeak("t2", n)
    \/ \E t \in Triggers : speak(t)
    \/ \E t \in Triggers : speakInstance(t)
    \/ \E t \in Triggers : speakSynth(t)
    \/ \E t \in Triggers, k \in 0..2 : synthCallbackStatic(t, k)
    \/ \E t \in Triggers : appendSamplesLock(t)
    \/ \E t \in Triggers : appendSamplesPush(t)
    \/ \E t \in Triggers : speakSynchronize(t)
    \/ \E t \in Triggers : speakReturn(t)

(***************************************************************************)
(* The standalone program as a whole: main's thread opens the device,       *)
(* starts and stops the engine; trigger threads run triggerNote with the    *)
(* adapter's calls lock by lock; the engine's worker runs audioCallback.    *)
(***************************************************************************)
\* the key played in these runs: "the", one sample from the library
PipelineNotes == {36}

\* GetCurrentPadding in these runs: the device's buffer is empty or full
Paddings == {0, BufferFrameCount}

\* triggerNote after getAudioSamples(): if (!samples.empty()): the pitch
\* shift when g_pitchShiftEnabled, the resampling when the rates differ
triggerShift(t) ==
    /\ app = "standalone"
    /\ pc[t] = "shift"
    /\ IF Len(samples[t]) = 0
       THEN /\ pc' = [pc EXCEPT ![t] = "idle"]
            /\ note' = [note EXCEPT ![t] = 0]
            /\ samples' = samples
       ELSE /\ pc' = [pc EXCEPT ![t] = "lock"]
            /\ note' = note
            /\ \E y \in (IF g_pitchShiftEnabled
                         THEN processToFrequency(samples[t],
                                  midiNoteToFrequency(
                                      pitchNote(note[t], g_octaveOffset)))
                         ELSE {samples[t]}) :
                  samples' = [samples EXCEPT ![t] =
                      rateConverted(y, TtsSampleRate, g_outputSampleRate)]
    /\ UNCHANGED << engineVars, synthVars, dspVars >>
    /\ UNCHANGED << app, adapterVars, standaloneVars, pluginVars, numChannels_,
                    drain, historyVars, triggers >>

\* audioThread: callback_ returns (audioCallback's lock_guard is released),
\* the buffer is committed with ReleaseBuffer
workerDrainReturn ==
    /\ Alive
    /\ wpc = "callback"
    /\ pc[RenderThread] = "written"
    /\ g_ttsBufferMutex' = NoThread
    /\ drain' = NoDrain
    /\ pc' = [pc EXCEPT ![RenderThread] = "idle"]
    /\ wpc' = "loop"
    /\ availableFrames' = 0
    /\ cycle' = filledAndReleased(cycle, callback_, drain.numFrames)
    /\ UNCHANGED << app, adapterVars, synthVars, dspVars, g_ttsAudioBuffer,
                    g_pitchShiftEnabled, g_octaveOffset, g_outputSampleRate,
                    pluginVars, numChannels_, note, samples, historyVars,
                    triggers >>
    /\ UNCHANGED << comVars, running_, audioThread_, callback_, lastError_,
                    eventVars, cpc, cop, liveWorkers, fault, destroyed,
                    engineHistoryVars >>

\* the steps of a trigger thread inside triggerNote
TriggerStep(t) ==
    \/ speak(t)
    \/ speakInstance(t)
    \/ speakSynth(t)
    \/ \E k \in 0..2 : synthCallbackStatic(t, k)
    \/ appendSamplesLock(t)
    \/ appendSamplesPush(t)
    \/ speakSynchronize(t)
    \/ speakReturn(t)
    \/ getAudioSamplesLock(t)
    \/ getAudioSamples(t)
    \/ triggerShift(t)
    \/ triggerLock(t)
    \/ triggerInsert(t)
    \/ triggerLog(t)

\* the steps of the worker thread
WorkerStep ==
    \/ workerLoop
    \/ \E signaled \in BOOLEAN : workerWait(signaled)
    \/ \E padding \in Paddings, paddingOk \in BOOLEAN,
          bufferOk \in BOOLEAN :
          workerRender(padding, paddingOk, bufferOk)
    \/ (wpc = "callback" /\ audioCallbackLock)
    \/ (wpc = "callback" /\ audioCallback(availableFrames))
    \/ workerDrainReturn

\* the steps of main's thread inside start() and stop()
MainStep ==
    \/ startStart("main", TRUE)
    \/ stopSet("main")
    \/ stopJoinable("main")
    \/ \E again \in BOOLEAN : stopJoin("main", again)
    \/ stopHalt("main")

\* the threads of the program
PipelineThreads == Triggers \cup {RenderThread, "main"}

\* thread t is inside triggerNote, audioThread, or start()/stop()
Busy(t) ==
    IF t \in Triggers THEN pc[t] # "idle"
    ELSE IF t = RenderThread THEN wpc # "none"
    ELSE cpc[t] # "idle"

\* the thread that holds what t is blocked on: a lock_guard's constructor on
\* a locked mutex, or join() on a worker that has not exited
waitsFor(t) ==
    IF t \in Triggers
    THEN IF pc[t] \in {"speakInstance", "synth", "speakReturn"}
         THEN instanceMutex_
         ELSE IF pc[t] \in {"appendSamples", "process"} THEN bufferMutex_
         ELSE IF pc[t] = "lock" THEN g_ttsBufferMutex
         ELSE NoThread
    ELSE IF t = RenderThread
    THEN IF wpc = "callback" /\ pc[RenderThread] = "idle"
         THEN g_ttsBufferMutex ELSE NoThread
    ELSE IF cpc[t] \in {"stopJoin", "startJoin"} /\ wpc # "none"
         THEN RenderThread ELSE NoThread

\* thread t has a step to take
Runnable(t) ==
    IF t \in Triggers THEN ENABLED TriggerStep(t)
    ELSE IF t = RenderThread THEN ENABLED WorkerStep
    ELSE ENABLED MainStep

\* t has a step to take, or waits on a chain of at most n holders that ends
\* in a thread that has one
RECURSIVE CanProceed(_, _)
CanProceed(t, n) ==
    \/ Runnable(t)
    \/ /\ n > 0
       /\ waitsFor(t) # NoThread
       /\ CanProceed(waitsFor(t), n - 1)

PipelineNext ==
    \/ (app = "none" /\ session = "Uninitialized"
        /\ initialize("main", "", "none"))
    \/ (session = "Initialized" /\ main(MixFormat, TRUE))
    \/ (app = "standalone" /\ session = "Initialized"
        /\ start("main", "audioCallback"))
    \/ (app = "standalone" /\ stop("main", "stop"))
    \/ MainStep
    \/ deviceSignal
    \/ WorkerStep
    \/ \E t \in Triggers, n \in PipelineNotes :
          running_ /\ triggerNote(t, n)
    \/ \E t \in Triggers : TriggerStep(t)

(***************************************************************************)
(* The shifter and the rate converter called on their own, before either    *)
(* program runs, and the controls of the octave offset                      *)
(***************************************************************************)
\* longest block handed to the shifter or to resample
MaxBlock == 3

Blocks == UNION {[1..n -> Amplitudes] : n \in 0..MaxBlock}

\* ratios handed to setPitchShiftRatio: negative, zero, the two limits of
\* processToFrequency, the values around the bypass window, an octave up
Ratios == {0 - RatioOne, 0, RatioOne \div 8, 99900, 99901, RatioOne, 100099,
           100100, 2 * RatioOne, 8 * RatioOne}

\* target frequencies: the MIDI notes' and, in FreqUnit, -1 Hz, 0, 0.001 Hz,
\* 2 MHz
TargetFreqs == {midiNoteToFrequency(n) : n \in 0..127}
               \cup {0 - FreqUnit, 0, 1, 2000000000}

\* blocks handed to processToFrequency: none and one sample
TargetBlocks == {input \in Blocks : Len(input) <= 1}

\* sample rates handed to resample
Rates == {8000, TtsSampleRate, 44100, 48000}

\* each run makes one call, after setting the ratio or not
NotCalled == app = "none" /\ dsp = NoDspCall

\* pitchShiftWorld(input, ratio) called as op: Dio reports some contour f0
\* when the analysis runs, and the block returned is one Synthesis may write
shifterCall(op, input, arg, ratio) ==
    /\ NotCalled
    /\ \E f0 \in [1..GetSamplesForDIO(TtsSampleRate, Len(input), FramePeriod)
                    -> F0Values],
          y \in pitchShiftWorld(input, ratio) :
          dsp' = [op |-> op, input |-> input, arg |-> arg,
                  modified |-> IF bypass(input, ratio) THEN << >>
                               ELSE modifiedF0(f0, ratio),
                  output |-> y]
    /\ UNCHANGED << relayVars, engineVars, synthVars, pitchShiftRatio_ >>

\* WorldPitchShifter::setPitchShiftRatio
setPitchShiftRatio(ratio) ==
    /\ NotCalled
    /\ pitchShiftRatio_' = ratio
    /\ UNCHANGED << relayVars, engineVars, synthVars, dsp >>

\* WorldPitchShifter::process
pitchShifterProcess(input) ==
    shifterCall("process", input, << pitchShiftRatio_ >>, pitchShiftRatio_)

\* WorldPitchShifter::processToFrequency
callProcessToFrequency(input, targetFreqHz) ==
    LET ratio == pow2Semitones(semitones(targetFreqHz))
    IN  shifterCall("processToFrequency", input, << targetFreqHz, ratio >>,
                    ratio)

\* WorldPitchShifter::midiNoteToFrequency
callMidiNoteToFrequency(midiNote) ==
    /\ NotCalled
    /\ dsp' = [op |-> "midiNoteToFrequency", input |-> << >>,
               arg |-> << midiNote >>, modified |-> << >>,
               output |-> << midiNoteToFrequency(midiNote) >>]
    /\ UNCHANGED << relayVars, engineVars, synthVars, pitchShiftRatio_ >>

\* resample / FTVoxProcessor::resample
callResample(input, inputRate, outputRate) ==
    /\ NotCalled
    /\ dsp' = [op |-> "resample", input |-> input,
               arg |-> << inputRate, outputRate >>, modified |-> << >>,
               output |-> resample(input, inputRate, outputRate)]
    /\ UNCHANGED << relayVars, engineVars, synthVars, pitchShiftRatio_ >>

\* main loop, keys 'W' and '+': if (g_octaveOffset < 5) g_octaveOffset++
octaveUp ==
    /\ app = "standalone"
    /\ g_octaveOffset' = IF g_octaveOffset < 5 THEN g_octaveOffset + 1
                         ELSE g_octaveOffset
    /\ UNCHANGED << engineVars, synthVars, dspVars >>
    /\ UNCHANGED << app, adapterVars, g_ttsAudioBuffer, g_ttsBufferMutex,
                    g_pitchShiftEnabled, g_outputSampleRate, pluginVars,
                    numChannels_, threadVars, drain, historyVars, triggers >>

\* main loop, keys 'Q' and '-': if (g_octaveOffset > -3) g_octaveOffset--
octaveDown ==
    /\ app = "standalone"
    /\ g_octaveOffset' = IF g_octaveOffset > 0 - 3 THEN g_octaveOffset - 1
                         ELSE g_octaveOffset
    /\ UNCHANGED << engineVars, synthVars, dspVars >>
    /\ UNCHANGED << app, adapterVars, g_ttsAudioBuffer, g_ttsBufferMutex,
                    g_pitchShiftEnabled, g_outputSampleRate, pluginVars,
                    numChannels_, threadVars, drain, historyVars, triggers >>

DspNext ==
    \/ \E ratio \in Ratios : setPitchShiftRatio(ratio)
    \/ \E input \in Blocks : pitchShifterProcess(input)
    \/ \E input \in TargetBlocks, targetFreqHz \in TargetFreqs :
          callProcessToFrequency(input, targetFreqHz)
    \/ \E midiNote \in 0..127 : callMidiNoteToFrequency(midiNote)
    \/ \E input \in Blocks, inputRate \in Rates, outputRate \in Rates :
          callResample(input, inputRate, outputRate)
    \/ (NotCalled /\ pitchShiftRatio_ = RatioOne /\ main(MixFormat, TRUE))
    \/ octaveUp
    \/ octaveDown
    \/ (NotCalled /\ pitchShiftRatio_ = RatioOne /\ pluginInitialize)
    \/ \E p \in OctaveChanges, n \in 0..1 : process(p, 0, n)
    \/ processOutput
    \/ processTTSAudio
    \/ processReturn

vars == << relayVars, engineVars, synthVars, dspVars >>
Init == RelayInit /\ EngineInit /\ SynthInit /\ DspInit
Next == RelayNext
Spec == Init /\ [][Next]_vars
SpecEngine == Init /\ [][EngineNext]_vars
SpecStopRace == Init /\ [][StopRaceNext]_vars

\* the worker thread and a thread inside stop() are scheduled: each takes its
\* next step when it can.  The device is not required to signal.
EngineFairness ==
    /\ WF_vars(workerLoop)
    /\ WF_vars(\E signaled \in BOOLEAN : workerWait(signaled))
    /\ WF_vars(\E padding \in 0..BufferFrameCount, paddingOk \in BOOLEAN,
                  bufferOk \in BOOLEAN :
                  workerRender(padding, paddingOk, bufferOk))
    /\ WF_vars(workerCallback)
    /\ WF_vars(stopSet("main"))
    /\ WF_vars(stopJoinable("main"))
    /\ WF_vars(\E again \in BOOLEAN : stopJoin("main", again))
    /\ WF_vars(stopHalt("main"))
SpecEngineFair == SpecEngine /\ EngineFairness
SpecConfigure == Init /\ [][ConfigureNext]_vars
SpecSpeech == Init /\ [][SpeechNext]_vars
SpecPipeline == Init /\ [][PipelineNext]_vars
SpecDsp == Init /\ [][DspNext]_vars
SpecInstances == Init /\ [][InstancesNext]_vars

(***************************************************************************)
(* Properties of the relay queue                                            *)
(***************************************************************************)
\* the relay queue of the program that runs
RelayQueue == IF app = "plugin" THEN ttsAudioBuffer_ ELSE g_ttsAudioBuffer

\* the threads that drain the relay
DrainThreads == {RenderThread, HostThread}

\* C1: relay FIFO.  The queued samples the drains have written so far,
\* followed by what is still queued, are the concatenation of all appended
\* blocks in append order; so what was played is a prefix of it and every
\* block stays contiguous and in order.
RelayFifo == played \o RelayQueue = appended

\* C1 case: two blocks were appended (a one-sample and a two-sample
\* utterance, resampled), drained in more than one chunk, all played
RelayFifoCase ==
    /\ Len(played) = 6
    /\ Len(RelayQueue) = 0
    /\ totalConsumed = 6
    /\ drain # NoDrain
    /\ drain.numFrames < 3

\* C2: underrun fill.  A drain asked for more frames than are queued has
\* written the n queued samples in order to frames 0..n-1 of every channel,
\* exact zeros to the frames n..numFrames-1, and has left the queue empty
\* (n = 0: only zeros, queue still empty).
UnderrunFill ==
    (drain # NoDrain /\ Len(drain.before) < drain.numFrames) =>
        /\ Len(drain.buffer) = drain.numFrames * drain.numChannels
        /\ \A k \in 1..Len(drain.buffer) :
              LET frame == (k - 1) \div drain.numChannels
              IN  drain.buffer[k] = IF frame < Len(drain.before)
                                    THEN drain.before[frame + 1]
                                    ELSE 0
        /\ RelayQueue = << >>

\* C2 case: a stereo drain of three frames found two queued samples
UnderrunFillCase ==
    /\ pc[RenderThread] = "written"
    /\ drain.numFrames = 3
    /\ drain.numChannels = 2
    /\ Len(drain.before) = 2
    /\ drain.before[2] # 0

\* C3: size bookkeeping.  Whatever the interleaving of trigger threads and
\* drains, the queue's length is the number of samples appended minus the
\* number consumed (an append of k adds k, a drain of numFrames removes
\* min(numFrames, length)).
RelaySize == Len(RelayQueue) = totalAppended - totalConsumed

\* C3 case: a drain has removed part of the queue while a trigger thread
\* waits for the mutex with its block, after an earlier append
RelaySizeCase ==
    /\ pc[RenderThread] = "written"
    /\ \E t \in Triggers : pc[t] = "lock" /\ Len(samples[t]) > 0
    /\ totalConsumed > 0
    /\ Len(g_ttsAudioBuffer) > 0

\* C4: the thread that drains the relay is never inside speak(),
\* processToFrequency(), resample() or logging.
DrainThreadOutsidePipeline ==
    \A th \in DrainThreads : pc[th] \notin {"speak", "process"}

(***************************************************************************)
(* Properties of the output engine                                          *)
(***************************************************************************)
\* C5: while the engine is Uninitialized (never initialized, or the last
\* initialize() returned false) no step spawns a worker thread or sets the
\* running flag, i.e. start() is refused.
FailedInitializeBlocksStart ==
    [][session = "Uninitialized" =>
          (liveWorkers' <= liveWorkers /\ (running_' => running_))]_vars

\* C6: initialize with a device id the system cannot resolve returns false,
\* sets a non-empty lastError_, leaves running_ as it was (false on an
\* engine that is not running) and spawns no worker thread.
UnresolvedDeviceFails ==
    [][\A c \in Callers, failAt \in FailStages :
          initialize(c, "missing", failAt) =>
              /\ ret'[c] = [op |-> "initialize", arg |-> "", value |-> FALSE]
              /\ lastError_' # ""
              /\ running_' = running_
              /\ (~running_ => ~running_')
              /\ liveWorkers' = liveWorkers
              /\ audioThread_' = audioThread_
              /\ wpc' = wpc]_vars

\* C6 case: initialize("missing") has returned false on an engine that is
\* not running
UnresolvedDeviceCase ==
    /\ ret["main"] = [op |-> "initialize", arg |-> "", value |-> FALSE]
    /\ lastError_ = "Failed to get audio device: missing"
    /\ ~running_
    /\ liveWorkers = 0

\* C7: however stop() calls of two threads interleave, the worker thread is
\* joined at most once and no join() is made on a thread that is no longer
\* joinable.
JoinedOnce == joins <= 1 /\ fault # "join"

\* C8: stop() halts the device only after the worker has exited; while it
\* waits for the worker the running flag is clear and a worker blocked in
\* its wait has been signaled; once stop() has returned the engine is not
\* running, no worker exists (so the callback is not invoked) and the
\* stream is halted, until a later call.
StopQuiesces ==
    /\ \A c \in Callers :
          cpc[c] = "stopHalt" => (liveWorkers = 0 /\ ~running_)
    /\ \A c \in Callers :
          cpc[c] \in {"stopJoinable", "stopJoin"} =>
              /\ ~running_
              /\ (wpc = "wait" /\ audioEvent_) => eventSignaled
    /\ \A c \in Callers :
          (cpc[c] = "idle" /\ ret[c].op = "stop") =>
              /\ ~running_
              /\ liveWorkers = 0
              /\ wpc = "none"
              /\ audioClient_ # "started"

\* C8 case: stop() has returned after stopping a running engine whose
\* worker it joined
StopQuiescesCase ==
    /\ cpc["main"] = "idle"
    /\ ret["main"].op = "stop"
    /\ session = "Stopped"
    /\ joins = 1
    /\ callback_ = "audioCallback"

\* C9: there is never more than one worker thread, and start() on a running
\* engine returns true, spawns nothing and keeps the installed callback.
SingleWorker ==
    [][/\ liveWorkers' <= 1
       /\ \A c \in Callers, cb \in Callbacks :
             (running_ /\ start(c, cb)) =>
                 /\ ret'[c] = [op |-> "start", arg |-> cb, value |-> TRUE]
                 /\ liveWorkers' = liveWorkers
                 /\ audioThread_' = audioThread_
                 /\ callback_' = callback_]_vars

\* C9 case: start with an empty callback has returned true on an engine
\* that runs with audioCallback installed
SingleWorkerCase ==
    /\ ret["main"] = [op |-> "start", arg |-> "", value |-> TRUE]
    /\ callback_ = "audioCallback"
    /\ running_
    /\ liveWorkers = 1

\* C10: an engine that stop() has stopped does not run again before a new
\* successful initialize().
RestartNeedsInitialize ==
    [][(~running_ /\ running_') => session # "Stopped"]_vars

\* C11: the device session is not reconfigured while the engine runs: as
\* long as running_ stays set, the format, the buffer size, the event and
\* the render client the worker uses keep their values, and a started audio
\* client is not replaced; so an initialize() on a running engine alters
\* none of them.
NoHotSwap ==
    [][(running_ /\ running_') =>
          /\ << sampleRate_, numChannels_, bufferFrames_, waveFormat_,
                audioEvent_, renderClient_ >>' =
             << sampleRate_, numChannels_, bufferFrames_, waveFormat_,
                audioEvent_, renderClient_ >>
          /\ (audioClient_ = "started" => audioClient_' = "started")]_vars

\* C12: a stop() call in progress eventually returns, whether or not the
\* device ever signals its event: the worker's wait ends, the worker sees
\* the cleared running flag and exits, and the join completes.
StopReturns ==
    (cop["main"] = "stop" /\ cpc["main"] # "idle") ~> (cpc["main"] = "idle")

(***************************************************************************)
(* Properties of the synthesis adapter                                      *)
(***************************************************************************)
\* C13: when initialize() has returned true (with a library that has every
\* entry point), the library has been given the adapter's stored voice,
\* rate, pitch and volume.
InitializeAppliesSettings ==
    (called = [op |-> "initialize", value |-> TRUE] /\ tts.exports = "all") =>
        /\ espeak.voice = tts.voice_
        /\ espeak.rate = tts.rate_
        /\ espeak.pitch = tts.pitch_
        /\ espeak.volume = tts.volume_

\* C14: speak(text) on an adapter that is not initialized returns at once:
\* the library is not called (nothing is pending or emitted, speaking_ is
\* not set), and the accumulation buffer and currentInstance_ are unchanged,
\* so a following getAudioSamples() returns exactly what was pending before
\* the call.
SpeakUninitializedNoOp ==
    [][\A t \in Triggers :
          (speak(t) /\ ~initialized_) =>
              /\ pc'[t] = afterSpeak
              /\ UNCHANGED << audioBuffer_, currentInstance_, speaking_,
                              pending, chunk, emitted, stored, espeak >>]_vars

\* C14 case: speak() has returned from its early return on an adapter that
\* was shut down with samples still in its buffer
SpeakUninitializedCase ==
    /\ called = [op |-> "speak", value |-> FALSE]
    /\ ~initialized_
    /\ tts.dllLoaded_
    /\ audioBuffer_ # << >>
    /\ pc["t1"] = "idle"

\* C14 as stated: after speak() on an adapter that is not initialized, the
\* accumulation buffer is empty, so a following getAudioSamples() returns
\* an empty block.
SpeakUninitializedEmpty ==
    (called = [op |-> "speak", value |-> FALSE] /\ ~initialized_) =>
        audioBuffer_ = << >>

\* C15: initialize(rate) on an initialized adapter returns true and changes
\* nothing: not the members (the stored sample rate included), not the
\* library's state (no new espeak_Initialize, no new callback
\* registration, no setter call).
InitializeIdempotent ==
    [][\A t \in Triggers, rate \in SampleRates, dll \in Dlls,
          initOk \in BOOLEAN :
          (initialized_ /\ callInitialize(t, rate, dll, initOk)) =>
              /\ called'.value
              /\ UNCHANGED << initialized_, tts, espeak, audioBuffer_,
                              speaking_, currentInstance_ >>]_vars

\* C15 case: initialize() has returned on an adapter that was initialized
\* and then given a rate
InitializeIdempotentCase ==
    /\ called = [op |-> "initialize", value |-> TRUE]
    /\ initialized_
    /\ espeak.rate = 450
    /\ tts.sampleRate_ = TtsSampleRate

\* C16: what getAudioSamples() calls have returned so far, followed by what
\* is in the accumulation buffer, is exactly what appendSamples stored, in
\* order: every call returns the samples stored since the previous one and
\* leaves none behind, none is lost and none is returned twice, also while
\* the callback appends.
StoredOnce == taken \o audioBuffer_ = stored

\* C16 case: during one speak() the second thread has fetched the first
\* chunk while the second chunk is in the buffer
StoredOnceCase ==
    /\ Len(samples["t2"]) = 1
    /\ Len(taken) = 1
    /\ Len(audioBuffer_) = 1
    /\ speaks = 1
    /\ pc["t1"] = "synth"

\* C17: when speak() returns after running the library, every chunk the
\* library handed to the callback has been stored, in delivery order (it
\* is in the buffer unless getAudioSamples() fetched it), speaking_ is false
\* and currentInstance_ is null.
SpeakSynchronous ==
    [][\A t \in Triggers :
          speakReturn(t) =>
              /\ ~speaking_'
              /\ currentInstance_' = "null"
              /\ stored' = emitted'
              /\ taken' \o audioBuffer_' = emitted']_vars

\* C17 case: speak() has returned with a two-chunk utterance in the buffer
SpeakSynchronousCase ==
    /\ called = [op |-> "speak", value |-> TRUE]
    /\ pc["t1"] = "idle"
    /\ Len(audioBuffer_) = 2
    /\ audioBuffer_ = emitted
    /\ speaks = 1

\* C18: the stored rate is in 80..450, the stored pitch in 0..99, the
\* stored volume in 0..200, and the library holds no rate, pitch or volume
\* outside these ranges.
SettingsInRange ==
    /\ tts.rate_ \in 80..450
    /\ tts.pitch_ \in 0..99
    /\ tts.volume_ \in 0..200
    /\ espeak.rate \in {NotGiven} \cup (80..450)
    /\ espeak.pitch \in {NotGiven} \cup (0..99)
    /\ espeak.volume \in {NotGiven} \cup (0..200)

\* C18 case: a rate above the range was set before initialize() and a pitch
\* below the range after it
SettingsInRangeCase ==
    /\ tts.rate_ = 450
    /\ espeak.rate = NotGiven
    /\ tts.pitch_ = 0
    /\ espeak.pitch = 0
    /\ initialized_

\* C19: no thread holds a relay mutex (g_ttsBufferMutex, ttsBufferMutex_)
\* and the adapter's bufferMutex_ at once, and the render thread holds
\* neither of the adapter's mutexes.
NoNestedLocks ==
    /\ \A t \in Triggers \cup {RenderThread, HostThread} :
          bufferMutex_ = t => (g_ttsBufferMutex # t /\ ttsBufferMutex_ # t)
    /\ bufferMutex_ # RenderThread
    /\ instanceMutex_ # RenderThread

\* one trigger thread inside getAudioSamples or appendSamples while another
\* is inside triggerNote's locked block and the worker waits for the relay
NoNestedLocksCase ==
    /\ bufferMutex_ = "t1"
    /\ g_ttsBufferMutex = "t2"
    /\ wpc = "callback"
    /\ pc[RenderThread] = "idle"

\* C20: no reachable state of the trigger threads, the worker in the
\* callback and the thread in stop() is a deadlock: every thread inside
\* a call has a step to take, or waits for a lock or for the join on a chain
\* of holders that ends in a thread that has one.
NoDeadlock ==
    \A t \in PipelineThreads :
        Busy(t) => CanProceed(t, Cardinality(PipelineThreads))

\* stop() waits in join() for the worker, the worker waits in audioCallback
\* for the relay mutex that one trigger thread holds, and the other trigger
\* thread waits for it too
NoDeadlockCase ==
    /\ cpc["main"] = "stopJoin"
    /\ wpc = "callback"
    /\ pc[RenderThread] = "idle"
    /\ g_ttsBufferMutex = "t1"
    /\ pc["t2"] = "lock"

(***************************************************************************)
(* Properties of the pitch shifter                                          *)
(***************************************************************************)
\* the last call was process or processToFrequency
ShifterCalled == dsp.op \in {"process", "processToFrequency"}

\* the ratio that call handed to pitchShiftWorld
ShifterRatio == dsp.arg[Len(dsp.arg)]

\* C21: duration.  For a non-empty input block and a ratio > 0, process
\* and processToFrequency return a block with exactly as many samples as
\* the input.
SameLength ==
    (ShifterCalled /\ Len(dsp.input) > 0 /\ ShifterRatio > 0)
        => Len(dsp.output) = Len(dsp.input)

\* C21 case: the longest block, shifted an octave up through analysis and
\* resynthesis, came back different
SameLengthCase ==
    /\ dsp.op = "process"
    /\ ShifterRatio = 2 * RatioOne
    /\ Len(dsp.input) = MaxBlock
    /\ dsp.modified # << >>
    /\ dsp.output # dsp.input

\* C22: bypass.  On an empty input, a ratio <= 0 or a ratio within 0.001 of
\* 1 the shifter returns its input sample for sample, and no analysis or
\* resynthesis is run.
BypassUnchanged ==
    (/\ ShifterCalled
     /\ \/ Len(dsp.input) = 0
        \/ ShifterRatio <= 0
        \/ (ShifterRatio > RatioOne - RatioOne \div 1000
            /\ ShifterRatio < RatioOne + RatioOne \div 1000))
        => (dsp.output = dsp.input /\ dsp.modified = << >>)

\* C22 case: a non-empty block with a ratio just inside the window, and one
\* with a negative ratio
BypassUnchangedCase ==
    /\ dsp.op = "process"
    /\ Len(dsp.input) = MaxBlock
    /\ ShifterRatio \in {100099, 0 - RatioOne}
    /\ dsp.output = dsp.input

\* C23: every modified F0 value handed to Synthesis is 0 or lies within
\* the floor and ceiling of the extraction, 71..800 Hz.
ModifiedF0InWindow ==
    ShifterCalled =>
        \A i \in 1..Len(dsp.modified) :
            \/ dsp.modified[i] = 0
            \/ /\ dsp.modified[i] >= F0Floor * RatioOne
               /\ dsp.modified[i] <= F0Ceil * RatioOne

\* the shift in semitones the claim gives for a MIDI note
NoteSemitones(midiNote) ==
    Max(0 - MaxSemitones, Min(MaxSemitones, midiNote - MiddleCNote))

\* C24: for every target frequency the ratio processToFrequency hands to
\* pitchShiftWorld lies in [1/8, 8], and for the frequency of a MIDI note
\* 0..127 it is 2^(s/12) for s = clamp(note - 60, -36, +36), to within
\* 0.1 % (the reference is 261.63 Hz, not the note's exact frequency).
RatioWindow ==
    dsp.op = "processToFrequency" =>
        /\ dsp.arg[2] >= RatioOne \div 8
        /\ dsp.arg[2] <= 8 * RatioOne
        /\ \A midiNote \in 0..127 :
              dsp.arg[1] = midiNoteToFrequency(midiNote) =>
                  LET ideal == timesPow2(RatioOne, NoteSemitones(midiNote))
                  IN  /\ (dsp.arg[2] - ideal) * 1000 <= ideal
                      /\ (ideal - dsp.arg[2]) * 1000 <= ideal

\* C24 case: the highest note, 67 semitones above middle C, shifted by the
\* limit of 36 semitones through the vocoder
RatioWindowCase ==
    /\ dsp.op = "processToFrequency"
    /\ dsp.arg = << midiNoteToFrequency(127), 8 * RatioOne >>
    /\ dsp.modified # << >>

\* C25: midiNoteToFrequency returns exactly 440 Hz for note 69, a value
\* within 0.01 Hz of 261.63 Hz for note 60, and 440 * 2^j Hz for the note j
\* octaves from 69.
NoteFrequencies ==
    dsp.op = "midiNoteToFrequency" =>
        LET midiNote == dsp.arg[1]
            f == dsp.output[1]
        IN  /\ midiNote = 69 => f = 440 * FreqUnit
            /\ midiNote = MiddleCNote =>
                  (f - middleC <= FreqUnit \div 100
                   /\ middleC - f <= FreqUnit \div 100)
            /\ \A j \in 0..4 : midiNote = 69 + 12 * j
                                   => f = 440 * FreqUnit * 2^j
            /\ \A j \in 1..5 : midiNote = 69 - 12 * j
                                   => f = (440 * FreqUnit) \div 2^j

\* C25 case: the call for middle C
NoteFrequenciesCase ==
    /\ dsp.op = "midiNoteToFrequency"
    /\ dsp.arg = << MiddleCNote >>
    /\ dsp.output # << middleC >>

(***************************************************************************)
(* Properties of the rate converter                                         *)
(***************************************************************************)
\* the last call was resample on a non-empty block with two different rates
Resampled ==
    /\ dsp.op = "resample"
    /\ Len(dsp.input) > 0
    /\ dsp.arg[1] # dsp.arg[2]

\* round(inputLength * toRate / fromRate) for that call
RoundedLength == stdRound(Len(dsp.input) * dsp.arg[2], dsp.arg[1])

\* C26: for a non-empty block and two different rates the output length of
\* resample is exactly round(inputLength * toRate / fromRate).
ExactRoundedLength == Resampled => Len(dsp.output) = RoundedLength

\* C27: for a non-empty block and two different rates the output length of
\* resample differs from round(inputLength * toRate / fromRate) by at most
\* one sample.
LengthWithinOne ==
    Resampled => /\ Len(dsp.output) - RoundedLength <= 1
                 /\ RoundedLength - Len(dsp.output) <= 1

\* C27 case: the longest block from the speech rate to 48000 Hz, where the
\* length is one below the rounded one
LengthWithinOneCase ==
    /\ Resampled
    /\ dsp.arg = << TtsSampleRate, 48000 >>
    /\ Len(dsp.input) = MaxBlock
    /\ Len(dsp.output) # RoundedLength

\* C28: resample(block, R, R) is block, and resample of the empty block is
\* the empty block for every pair of rates.
ResampleIdentity ==
    dsp.op = "resample" =>
        /\ dsp.arg[1] = dsp.arg[2] => dsp.output = dsp.input
        /\ Len(dsp.input) = 0 => dsp.output = << >>

\* C28 case: the longest block with equal rates
ResampleIdentityCase ==
    /\ dsp.op = "resample"
    /\ dsp.arg[1] = dsp.arg[2]
    /\ Len(dsp.input) = MaxBlock
    /\ dsp.output = dsp.input

(***************************************************************************)
(* Properties of the controls and of the drain                              *)
(***************************************************************************)
\* C29: the octave offset stays in -3..+3, after any octave keys in the
\* standalone program and after any octave parameter change in the plugin.
OctaveInRange ==
    /\ g_octaveOffset >= 0 - 3 /\ g_octaveOffset <= 3
    /\ octaveOffset_ >= 0 - 3 /\ octaveOffset_ <= 3

\* C30: a drain writes all numFrames * numChannels slots of its
\* destination, and within a frame every channel gets the same value.
DrainFillsChannels ==
    /\ Len(drain.buffer) = drain.numFrames * drain.numChannels
    /\ \A frame \in 0..(drain.numFrames - 1) :
          \A ch \in 0..(drain.numChannels - 1) :
              drain.buffer[frame * drain.numChannels + ch + 1]
                  = drain.buffer[frame * drain.numChannels + 1]

\* C30 case: a drain into two channels whose first two frames carry
\* different queued samples
DrainFillsChannelsCase ==
    /\ drain.numChannels = 2
    /\ drain.numFrames >= 2
    /\ drain.buffer[1] # 0
    /\ drain.buffer[3] # 0
    /\ drain.buffer[1] # drain.buffer[3]

(***************************************************************************)
(* Properties of the pipeline from trigger to relay                         *)
(***************************************************************************)
\* the threads that run the pipeline: the trigger threads of the standalone
\* program, the host's thread in the plugin
Producers == Triggers \cup {HostThread}

\* the device rate of the running program
DeviceRate == IF app = "plugin" THEN sampleRate_ ELSE g_outputSampleRate

\* the length of n samples at the synthesis rate, resampled to rate
ResampledLength(n, rate) ==
    IF rate = TtsSampleRate THEN n ELSE (n * rate) \div TtsSampleRate

MutexOnlyWhileCopying ==
    /\ \A t \in Triggers : g_ttsBufferMutex = t => pc[t] = "insert"
    /\ ttsBufferMutex_ = HostThread
          => pc[HostThread] \in {"insert", "drain", "written"}

(***************************************************************************)
(* Properties of the worker's loop body                                     *)
(***************************************************************************)
\* C33: a pass of the worker that obtains a buffer has asked for exactly
\* bufferFrames_ - padding frames (at least one); when the pass is over
\* the buffer has been filled once, with that many frames, and
\* ReleaseBuffer has been given the same count; the worker waits for the
\* next wake and asks for a buffer again only after that; a wake that
\* finds no free frame asks for nothing.
CycleFillsOnce ==
    /\ wpc = "callback"
          => /\ cycle.outcome = "buffer"
             /\ cycle.requested = bufferFrames_ - cycle.padding
             /\ cycle.requested > 0
             /\ availableFrames = cycle.requested
             /\ cycle.fills = 0
             /\ cycle.released = 0
    /\ (wpc # "callback" /\ cycle.outcome = "buffer")
          => /\ cycle.requested = bufferFrames_ - cycle.padding
             /\ cycle.fills = 1
             /\ cycle.by \in {"callback", "memset"}
             /\ cycle.filled = cycle.requested
             /\ cycle.released = cycle.requested
    /\ wpc \in {"wait", "render"} => cycle = NoCycle
    /\ cycle.outcome = "no free frame"
          => /\ cycle.padding = bufferFrames_
             /\ cycle.requested = 0
             /\ cycle.fills = 0
             /\ cycle.released = 0

\* with one frame still queued in the device and no callback installed, the
\* worker has asked for the one free frame, zeroed it and released it
CycleFillsOnceCase ==
    /\ wpc = "loop"
    /\ cycle.outcome = "buffer"
    /\ cycle.padding = 1
    /\ cycle.requested = BufferFrameCount - 1
    /\ cycle.by = "memset"
    /\ cycle.released = cycle.requested

\* the outcomes of a pass in which a device call failed
FailedCalls == {"GetCurrentPadding failed", "GetBuffer failed"}

\* C34: a step in which GetCurrentPadding or GetBuffer fails takes the
\* worker from the loop body back to the loop's test with nothing filled
\* and nothing released; it neither ends the worker nor changes running_.
FailedCallSkipsCycle ==
    [][(cycle'.outcome \in FailedCalls /\ cycle' # cycle)
          => /\ wpc = "render"
             /\ wpc' = "loop"
             /\ running_' = running_
             /\ liveWorkers' = liveWorkers
             /\ cycle'.fills = 0
             /\ cycle'.released = 0]_vars

\* GetBuffer has failed on a running engine: the worker is at the loop's
\* test, still alive
FailedCallSkipsCycleCase ==
    /\ cycle.outcome = "GetBuffer failed"
    /\ wpc = "loop"
    /\ running_
    /\ liveWorkers = 1
    /\ fault = "none"

\* C35: when audioClient_->Start() fails after the worker has been spawned,
\* start() clears running_ before it waits for the worker, and when it has
\* returned false with its diagnostic, running_ is false, no worker exists
\* and audioThread_ is not joinable: the worker was joined, once.
StartRollsBack ==
    \A c \in Callers :
        /\ cpc[c] = "startJoin" => ~running_
        /\ (/\ cpc[c] = "idle"
            /\ ret[c].op = "start"
            /\ ~ret[c].value
            /\ lastError_ = "Failed to start audio client")
              => /\ ~running_
                 /\ liveWorkers = 0
                 /\ wpc = "none"
                 /\ ~audioThread_
                 /\ joins = 1

\* start(audioCallback) has returned false after the device refused to
\* start
StartRollsBackCase ==
    /\ cpc["main"] = "idle"
    /\ ret["main"] = [op |-> "start", arg |-> "audioCallback", value |-> FALSE]
    /\ lastError_ = "Failed to start audio client"
    /\ callback_ = "audioCallback"
    /\ liveWorkers = 0
    /\ joins = 1

(***************************************************************************)
(* Properties of two adapters in one process                                *)
(***************************************************************************)
\* C36: with two adapters, a chunk the library delivers during speak() on
\* one of them is appended to that adapter's buffer: while a thread is in
\* appendSamples for its chunk, currentInstance_ is the adapter whose
\* speak() the thread is in, and a chunk that has been delivered is in
\* appendSamples or has been stored, never dropped.
ChunksReachOwnInstance ==
    \A t \in Triggers :
        /\ pc[t] \in {"appendSamples", "push_back"}
              => currentInstance_ = self[t]
        /\ chunk[t] # << >> => pc[t] \in {"appendSamples", "push_back"}

(***************************************************************************)
(* Properties of shutdown                                                   *)
(***************************************************************************)
\* C37: when shutdown() has returned, the adapter is not initialized (so
\* that speak() is refused and a later initialize() runs espeak_Initialize
\* and the callback registration again) and the library has been
\* terminated.
ShutdownUninitializes ==
    called = [op |-> "shutdown", value |-> TRUE]
        => (~initialized_ /\ ~espeak.initialized)

(***************************************************************************)
(* Properties of the samples the rate converter writes                      *)
(***************************************************************************)
\* source position of output sample i (counted from 0) of the last call:
\* i * fromRate / toRate, as whole part and remainder
SourceIndex(i) == (i * dsp.arg[1]) \div dsp.arg[2]
SourceFraction(i) == (i * dsp.arg[1]) % dsp.arg[2]

\* the point between a and b that lies rem / toRate of the way from a to b
Interpolated(a, b, rem) == a + ((b - a) * rem) \div dsp.arg[2]

\* C38: every output sample i of resample has a source index below the
\* input length; it is the linear interpolation between the input samples
\* at the source index and the one after it, or the last input sample when
\* the source index is the last one: no output sample is the filler zero of
\* a position past the input.
InterpolatesInsideInput ==
    Resampled =>
        \A i \in 0..(Len(dsp.output) - 1) :
            /\ SourceIndex(i) < Len(dsp.input)
            /\ dsp.output[i + 1] =
                  IF SourceIndex(i) + 1 < Len(dsp.input)
                  THEN Interpolated(dsp.input[SourceIndex(i) + 1],
                                    dsp.input[SourceIndex(i) + 2],
                                    SourceFraction(i))
                  ELSE dsp.input[Len(dsp.input)]

\* C38 case: the longest block from the speech rate to 48000 Hz; one output
\* sample lies strictly between two different input samples and the last
\* one falls in the final interval, where the last input sample is not zero
InterpolatesInsideInputCase ==
    /\ Resampled
    /\ dsp.arg = << TtsSampleRate, 48000 >>
    /\ Len(dsp.input) = MaxBlock
    /\ dsp.input[MaxBlock] # 0
    /\ SourceIndex(Len(dsp.output) - 1) = MaxBlock - 1
    /\ dsp.output[Len(dsp.output)] = dsp.input[MaxBlock]
    /\ \E i \in 0..(Len(dsp.output) - 1) :
          /\ SourceIndex(i) + 1 < MaxBlock
          /\ SourceFraction(i) # 0
          /\ dsp.output[i + 1] # dsp.input[SourceIndex(i) + 1]

(***************************************************************************)
(* The two drains side by side                                              *)
(***************************************************************************)
\* C39: the drain of the plugin (processTTSAudio) and the drain of the
\* standalone program (audioCallback) agree: whichever of the two has run,
\* the value at every (frame, channel) position of its destination is the
\* value the other one writes there from the same queue content, frame
\* count and channel count, and the queue it leaves is the queue the other
\* one leaves.
DrainsAgree ==
    drain # NoDrain =>
        /\ \A frame \in 0..(drain.numFrames - 1) :
              \A ch \in 0..(drain.numChannels - 1) :
                  /\ drain.buffer[frame * drain.numChannels + ch + 1]
                        = interleaved(drain.before, drain.numFrames,
                                      drain.numChannels)
                              [frame * drain.numChannels + ch + 1]
                  /\ drain.buffer[frame * drain.numChannels + ch + 1]
                        = planar(drain.before, drain.numFrames,
                                 drain.numChannels)
                              [frame * drain.numChannels + ch + 1]
        /\ RelayQueue = eraseConsumed(drain.before, drain.numFrames)

\* C39 case: the plugin has drained two channels from a queue that holds
\* more samples than the call has frames, so that samples stay queued
DrainsAgreeCase ==
    /\ app = "plugin"
    /\ pc[HostThread] = "written"
    /\ drain.numChannels = 2
    /\ drain.numFrames >= 1
    /\ Len(drain.before) > drain.numFrames
    /\ drain.buffer[2] # 0
    /\ ttsAudioBuffer_ # << >>

(***************************************************************************)
(* Triggers without speech                                                  *)
(***************************************************************************)
\* the notes the mapping file of the model has an entry for
MappedNotes == {36, 60, 62}

\* C40: a trigger that produces no speech leaves the relay queue unchanged.
\* A trigger goes on to speak() only for a mapped note on an initialized
\* adapter; a trigger that is refused, and a trigger whose block from
\* getAudioSamples() is empty, return in a step that keeps the relay; and
\* whenever the relay changes other than by a drain, a thread appends its
\* non-empty block of a mapped note.
SilentTriggerKeepsRelay ==
    [][ /\ \A u \in Producers :
              /\ (pc[u] # "speak" /\ pc'[u] = "speak")
                    => (note'[u] \in MappedNotes /\ initialized_)
              /\ (pc[u] = "process" /\ pc'[u] # "process"
                                    /\ audioBuffer_ = << >>)
                    => (pc'[u] \in {"idle", "events"}
                        /\ RelayQueue' = RelayQueue)
        /\ ((triggers' # triggers \/ events' < events) /\ pc' = pc)
              => RelayQueue' = RelayQueue
        /\ (RelayQueue' # RelayQueue /\ Len(RelayQueue') >= Len(RelayQueue))
              => \E u \in Producers :
                    /\ pc[u] = "insert" /\ pc'[u] # "insert"
                    /\ samples[u] # << >>
                    /\ note[u] \in MappedNotes
                    /\ initialized_
                    /\ RelayQueue' = RelayQueue \o samples[u]
      ]_vars

\* C40 case: the standalone program after two triggers, both returned; the
\* relay holds one sample, the block of the only trigger that spoke
SilentTriggerKeepsRelayCase ==
    /\ app = "standalone"
    /\ initialized_
    /\ triggers >= 2
    /\ \A t \in Triggers : pc[t] = "idle"
    /\ totalAppended = 1
    /\ g_ttsAudioBuffer = appended
    /\ Len(g_ttsAudioBuffer) = 1

====
